---- MODULE Spec2Model ----
(***************************************************************************)
(* Memory subsystem of Claudian (cortex/src/memory): the knowledge         *)
(* retriever (manager.ts), the backup manager (backup.ts) and the store    *)
(* wrapper with its bounded retry (db.ts).                                 *)
(*                                                                         *)
(* Units.  Scores, similarities and bonuses are real numbers in the        *)
(* source; here they are integers counting 1/600ths (0.4 is 240, 0.02 is  *)
(* 12), which makes every bonus of calculateRelevanceScore a whole         *)
(* number.  Result limits count tenths (a limit of 1.2 is 12) because      *)
(* calculateOptimalLimit multiplies by 1.2.  Time counts whole days; an    *)
(* age is the number of days since a timestamp.                            *)
(***************************************************************************)
EXTENDS Integers, Sequences, FiniteSets, TLC

VARIABLES
    knowledge,    \* the knowledge table: id -> row
    seq,          \* sqlite_sequence of the knowledge table (last id given out)
    dbExists,     \* whether the store file claudian_memory.db exists
    embeddings,   \* config.enableEmbeddings
    initialized,  \* MemoryManager.initialized of the running process
    dir,          \* the backups directory, newest file first
    streak,       \* history: the run of backups made at least 24 hours apart
    last,         \* the call that has just completed and what it returned
    w,            \* one writeWithRetry / openWithRetry call in progress
    fts,          \* the knowledge_fts index: rowid -> indexed columns
    facts,        \* the core_facts table: id -> row
    factSeq,      \* sqlite_sequence of the core_facts table
    episodes,     \* the episodes table, in insertion order
    session,      \* MemoryManager.currentSessionId
    svc,          \* the EmbeddingService singleton
    callers,      \* the init() / embed() calls in flight on the service
    startup       \* MemoryDatabase.initialized, and history: store opens, checks

\* The tables and fields that the knowledge and backup handlers leave alone.
aside == <<facts, factSeq, episodes, session, callers, startup>>

vars == <<knowledge, seq, dbExists, embeddings, initialized, dir, streak, last,
          w, fts, svc, aside>>

\* Everything but the retry loop.
memory == <<knowledge, seq, dbExists, embeddings, initialized, dir, streak,
            last, fts, svc, aside>>

(***************************************************************************)
(* Bounds of the model.                                                    *)
(***************************************************************************)
MaxRows == 2
MaxAccess == 2
MaxCalls == 2

(***************************************************************************)
(* db.ts: bounded retry.                                                   *)
(***************************************************************************)
MAX_RETRY_ATTEMPTS == 3
RETRY_DELAY_MS == 100

\* What one invocation of the operation (or of new Database) can do: succeed,
\* or throw an error whose message / code is one of these.
Outcomes == {"ok", "SQLITE_BUSY", "database is locked", "EBUSY", "other"}

\* isLockError of writeWithRetry (message test) and of openWithRetry (code or
\* message test).
isLockError(kind, outcome) ==
    IF kind = "write"
    THEN outcome \in {"SQLITE_BUSY", "database is locked"}
    ELSE outcome \in {"SQLITE_BUSY", "database is locked", "EBUSY"}

\* The body of the retry loop for one attempt: what happens after the
\* operation was invoked and ended with `outcome`.
retryStepRetriesLast(kind, attempt, outcome) ==
    IF outcome = "ok" THEN [pc |-> "returned", delay |-> 0]
    ELSE IF isLockError(kind, outcome) /\ attempt <= MAX_RETRY_ATTEMPTS
         THEN [pc |-> "sleeping", delay |-> RETRY_DELAY_MS * attempt]
         ELSE [pc |-> "thrown", delay |-> 0]

retryStep(kind, attempt, outcome) ==
    IF outcome = "ok" THEN [pc |-> "returned", delay |-> 0]
    ELSE IF isLockError(kind, outcome) /\ attempt < MAX_RETRY_ATTEMPTS
         THEN [pc |-> "sleeping", delay |-> RETRY_DELAY_MS * attempt]
         ELSE [pc |-> "thrown", delay |-> 0]

WIdle == [pc |-> "idle", kind |-> "write", attempt |-> 0, calls |-> 0,
          delay |-> 0, waited |-> 0, hist |-> <<>>, done |-> 0]

\* writeWithRetry / openWithRetry is called: attempt = 1.
RetryBegin ==
    /\ w.pc = "idle"
    /\ w.done < MaxCalls
    /\ \E kind \in {"write", "open"} :
          w' = [WIdle EXCEPT !.pc = "try", !.kind = kind, !.attempt = 1,
                             !.done = w.done]
    /\ UNCHANGED memory

\* One pass through the try block: the operation is invoked once.
RetryAttempt ==
    /\ w.pc = "try"
    /\ \E outcome \in Outcomes :
          LET r == retryStep(w.kind, w.attempt, outcome)
          IN  w' = [w EXCEPT !.pc = r.pc, !.delay = r.delay,
                             !.calls = w.calls + 1,
                             !.hist = Append(w.hist, outcome)]
    /\ UNCHANGED memory

\* The sleep timer fires: the for loop increments attempt and tests it; when
\* the loop is exhausted the trailing `throw lastError` runs.
RetryWake ==
    /\ w.pc = "sleeping"
    /\ w' = [w EXCEPT !.pc = IF w.attempt + 1 <= MAX_RETRY_ATTEMPTS
                             THEN "try" ELSE "thrown",
                      !.attempt = w.attempt + 1,
                      !.waited = w.waited + w.delay]
    /\ UNCHANGED memory

\* The caller has its result (or its exception); the next call may start.
RetryDone ==
    /\ w.pc \in {"returned", "thrown"}
    /\ w' = [WIdle EXCEPT !.done = w.done + 1]
    /\ UNCHANGED memory

\* The whole call as a function of what the successive invocations do:
\* "ok" when it returns, "throw" when it rethrows.
RECURSIVE writeWithRetryFrom(_, _)
writeWithRetryFrom(outcomes, attempt) ==
    IF attempt > MAX_RETRY_ATTEMPTS \/ attempt > Len(outcomes) THEN "throw"
    ELSE LET r == retryStep("write", attempt, outcomes[attempt])
         IN  IF r.pc = "returned" THEN "ok"
             ELSE IF r.pc = "thrown" THEN "throw"
             ELSE writeWithRetryFrom(outcomes, attempt + 1)

writeWithRetry(outcomes) == writeWithRetryFrom(outcomes, 1)

\* The behaviours of the store that the callers are run against.
WriteScripts ==
    { <<"ok">>,
      <<"SQLITE_BUSY", "ok">>,
      <<"database is locked", "database is locked", "database is locked">>,
      <<"other">> }

\* What a write through writeWithRetry comes to: "ok" or "throw".
WriteResults == {writeWithRetry(script) : script \in WriteScripts}

(***************************************************************************)
(* embedding-service.ts: lazy, shared initialization of the model.         *)
(***************************************************************************)
MaxCallers == 3

Callers == 1..MaxCallers

\* A new EmbeddingService: initialized = false, initPromise = null.  loads
\* counts the doInit() calls started.
SvcInit == [initialized |-> FALSE, initPromise |-> "null", loads |-> 0]

\* No call in flight.  joined: the call found a load in flight and awaits it.
CallersIdle == [c \in Callers |-> [pc |-> "idle", joined |-> FALSE]]

\* embeddingService.init() run to its end by MemoryManager.init(), which
\* awaits it: nothing when the model is loaded; otherwise the load is started
\* (unless a load was started before) and fails exactly when fault is "model".
svcAfterInit(s, isInitialized, enabled, fault) ==
    IF isInitialized \/ ~enabled \/ s.initialized THEN s
    ELSE IF s.initPromise # "null" THEN s
    ELSE IF fault = "model"
    THEN [s EXCEPT !.initPromise = "rejected", !.loads = @ + 1]
    ELSE [s EXCEPT !.initialized = TRUE, !.initPromise = "resolved",
                   !.loads = @ + 1]

(***************************************************************************)
(* memory-store.ts: the triggers that keep knowledge_fts in step with the  *)
(* knowledge table.                                                        *)
(***************************************************************************)
\* The columns of a row that the index holds (tags are not modelled).
indexed(row) == [content |-> row.content, category |-> row.category]

\* knowledge_ai: AFTER INSERT
knowledge_ai(index, id, new) == (id :> indexed(new)) @@ index

\* knowledge_ad: AFTER DELETE (the 'delete' command of the index)
knowledge_ad(index, id) == [k \in DOMAIN index \ {id} |-> index[k]]

\* knowledge_au: AFTER UPDATE, the old entry is deleted and the new inserted.
knowledge_auDeleteOnly(index, id, new) == knowledge_ad(index, id)

knowledge_au(index, id, new) == knowledge_ai(knowledge_ad(index, id), id, new)

\* The index after an UPDATE of the rows `changed`, whose new values are in
\* rows: the trigger runs FOR EACH ROW.
RECURSIVE afterUpdate(_, _, _)
afterUpdate(index, rows, changed) ==
    IF changed = {} THEN index
    ELSE LET id == CHOOSE k \in changed : TRUE
         IN  afterUpdate(knowledge_au(index, id, rows[id]), rows,
                         changed \ {id})

\* The index a store file holds for its rows.
indexOf(rows) == [id \in DOMAIN rows |-> indexed(rows[id])]

\* A store file that was just created: the tables of CREATE_TABLES_SQL, empty.
EmptyContent ==
    [knowledge |-> <<>>, seq |-> 0, fts |-> <<>>, facts |-> <<>>,
     factSeq |-> 0, episodes |-> <<>>]

\* A MemoryDatabase that was not initialized: the store file was opened by
\* no call, and no startup autoBackup has run.
NoStartup == [dbInitialized |-> FALSE, opens |-> 0, checks |-> 0]

\* What a new process starts with beside the knowledge table.
InitAside ==
    /\ facts = <<>>
    /\ factSeq = 0
    /\ episodes = <<>>
    /\ session = 1
    /\ svc = SvcInit
    /\ callers = CallersIdle
    /\ startup = NoStartup

NoCall == [op |-> "none"]

InitCommon ==
    /\ knowledge = <<>>
    /\ seq = 0
    /\ dbExists = TRUE
    /\ embeddings = TRUE
    /\ initialized = FALSE
    /\ dir = <<>>
    /\ streak = [n |-> 0, since |-> 0, second |-> 0]
    /\ last = NoCall
    /\ w = WIdle
    /\ fts = indexOf(knowledge)
    /\ InitAside

(***************************************************************************)
(* Specification of the retry loop alone.                                  *)
(***************************************************************************)
NextRetry == RetryBegin \/ RetryAttempt \/ RetryWake \/ RetryDone

SpecRetry == InitCommon /\ [][NextRetry]_vars

\* The operation is synchronous and the sleep is a timer of the event loop:
\* an attempt that can run does run, a timer that is set does fire.
SpecRetryFair == SpecRetry /\ WF_vars(RetryAttempt) /\ WF_vars(RetryWake)

\* C10: writeWithRetry (and openWithRetry) invokes the operation at most
\* MAX_RETRY_ATTEMPTS times, sleeps only after a lock/busy error and then for
\* RETRY_DELAY_MS times the attempt number, never sleeps after the last allowed
\* attempt but rethrows, and every call that started ends by returning or
\* throwing.
C10_RetryTerminates ==
    /\ [](/\ w.calls <= MAX_RETRY_ATTEMPTS
          /\ w.pc = "sleeping" =>
                /\ isLockError(w.kind, w.hist[Len(w.hist)])
                /\ w.attempt < MAX_RETRY_ATTEMPTS
                /\ w.delay = RETRY_DELAY_MS * w.attempt
          /\ w.pc = "try" =>
                /\ w.calls = w.attempt - 1
                /\ \A i \in 1..Len(w.hist) : isLockError(w.kind, w.hist[i])
          /\ w.pc = "thrown" =>
                /\ w.hist[Len(w.hist)] # "ok"
                /\ \/ ~isLockError(w.kind, w.hist[Len(w.hist)])
                   \/ w.calls = MAX_RETRY_ATTEMPTS
          /\ w.pc = "returned" => w.hist[Len(w.hist)] = "ok")
    /\ ((w.pc = "try") ~> (w.pc \in {"returned", "thrown"}))

\* A write that met a lock error on each of its three attempts: it slept 100 ms
\* and 200 ms and then rethrew.
C10_Witness ==
    /\ w.pc = "thrown"
    /\ w.kind = "write"
    /\ w.calls = MAX_RETRY_ATTEMPTS
    /\ w.waited = 300
    /\ \A i \in 1..Len(w.hist) : isLockError("write", w.hist[i])

\* A function with its values computed once.
Table(f) == f @@ <<>>

(***************************************************************************)
(* Text.  A string is a sequence of one-character strings, so that the     *)
(* splitting, lower-casing and pattern tests of the source are computed.   *)
(***************************************************************************)
LowerOf ==
    [A |-> "a", B |-> "b", C |-> "c", D |-> "d", E |-> "e", F |-> "f",
     G |-> "g", H |-> "h", I |-> "i", J |-> "j", K |-> "k", L |-> "l",
     M |-> "m", N |-> "n", O |-> "o", P |-> "p", Q |-> "q", R |-> "r",
     S |-> "s", T |-> "t", U |-> "u", V |-> "v", W |-> "w", X |-> "x",
     Y |-> "y", Z |-> "z"]

UpperChars == DOMAIN LowerOf

LowerChars == {LowerOf[c] : c \in UpperChars}

DigitChars == {"0", "1", "2", "3", "4", "5", "6", "7", "8", "9"}

\* \s
IsSpace(c) == c \in {" ", "\t", "\n"}

\* [A-Z] and [a-z] under the i flag
IsLetter(c) == c \in UpperChars \cup LowerChars

\* \w
IsWordChar(c) == IsLetter(c) \/ c \in DigitChars \/ c = "_"

toLowerCase(s) ==
    [i \in 1..Len(s) |-> IF s[i] \in UpperChars THEN LowerOf[s[i]] ELSE s[i]]

\* String.prototype.split(/\s+/): a separator is a maximal run of white
\* space; a string that begins or ends with white space yields an empty first
\* or last element, and the empty string yields one empty element.
RECURSIVE splitFrom(_, _, _, _)
splitFrom(s, i, acc, cur) ==
    IF i > Len(s) THEN Append(acc, cur)
    ELSE IF IsSpace(s[i])
         THEN IF i > 1 /\ IsSpace(s[i - 1])
              THEN splitFrom(s, i + 1, acc, cur)
              ELSE splitFrom(s, i + 1, Append(acc, cur), <<>>)
         ELSE splitFrom(s, i + 1, acc, Append(cur, s[i]))

splitWhitespace(s) == splitFrom(s, 1, <<>>, <<>>)

\* String.prototype.includes
includes(s, p) ==
    \E i \in 1..(Len(s) - Len(p) + 1) : SubSeq(s, i, i + Len(p) - 1) = p

startsWith(s, p) == Len(p) <= Len(s) /\ SubSeq(s, 1, Len(p)) = p

\* \b between positions i and i + 1 of s (i = 0: before the first character).
wordBoundary(s, i) ==
    LET before == i >= 1 /\ IsWordChar(s[i])
        after == i + 1 <= Len(s) /\ IsWordChar(s[i + 1])
    IN  before # after

\* /\b\d{4}\b/
matchesYear(s) ==
    \E i \in 1..(Len(s) - 3) :
        /\ \A k \in i..(i + 3) : s[k] \in DigitChars
        /\ wordBoundary(s, i - 1)
        /\ wordBoundary(s, i + 3)

\* /\b[A-Z][a-z]+\s[A-Z][a-z]+\b/i : with the i flag both classes are any
\* letter, so this is two runs of two or more letters around one white space.
matchesProperNoun(s) ==
    \E j \in 3..(Len(s) - 2) :
        /\ IsSpace(s[j])
        /\ \E i \in 1..(j - 2) :
              /\ wordBoundary(s, i - 1)
              /\ \A m \in i..(j - 1) : IsLetter(s[m])
        /\ \E k \in (j + 2)..Len(s) :
              /\ wordBoundary(s, k)
              /\ \A m \in (j + 1)..k : IsLetter(s[m])

\* The literal words of analyzeQuery.
KW_api == <<"a", "p", "i">>
KW_config == <<"c", "o", "n", "f", "i", "g">>
KW_system == <<"s", "y", "s", "t", "e", "m">>
KW_setting == <<"s", "e", "t", "t", "i", "n", "g">>
KW_what == <<"w", "h", "a", "t">>
KW_when == <<"w", "h", "e", "n">>
KW_where == <<"w", "h", "e", "r", "e">>
KW_how == <<"h", "o", "w">>
KW_which == <<"w", "h", "i", "c", "h">>
KW_who == <<"w", "h", "o">>
KW_prefer == <<"p", "r", "e", "f", "e", "r">>
KW_like == <<"l", "i", "k", "e">>
KW_want == <<"w", "a", "n", "t">>
KW_need == <<"n", "e", "e", "d">>
KW_favorite == <<"f", "a", "v", "o", "r", "i", "t", "e">>

\* The query strings the model asks.  apiPadded is " api ".
QueryText ==
    [api |->
        <<"a", "p", "i">>,
     apiPadded |->
        <<" ", "a", "p", "i", " ">>,
     dark |->
        <<"d", "a", "r", "k">>,
     darkPadded |->
        <<" ", "d", "a", "r", "k", " ">>,
     darkMode |->
        <<"d", "a", "r", "k", " ", "m", "o", "d", "e">>,
     darkModePreference |->
        <<"d", "a", "r", "k", " ", "m", "o", "d", "e", " ", "p", "r", "e", "f", "e", "r", "e", "n", "c", "e">>,
     long |->
        <<"w", "h", "a", "t", " ", "t", "h", "e", "m", "e", " ", "d", "o", " ", "i", " ", "l", "i", "k", "e", " ", "t", "o", " ", "u", "s", "e", " ", "a", "t", " ", "n", "i", "g", "h", "t">>]

Queries == DOMAIN QueryText

\* The contents a snippet can be stored with.
ContentText ==
    [prefers |->
        <<"u", "s", "e", "r", " ", "p", "r", "e", "f", "e", "r", "s", " ", "d", "a", "r", "k", " ", "m", "o", "d", "e">>,
     prefersWeb |->
        <<"u", "s", "e", "r", " ", "p", "r", "e", "f", "e", "r", "s", " ", "d", "a", "r", "k", " ", "m", "o", "d", "e", " ", "o", "n", " ", "t", "h", "e", " ", "w", "e", "b">>,
     apiConfig |->
        <<"d", "a", "r", "k", " ", "m", "o", "d", "e", " ", "a", "p", "i", " ", "c", "o", "n", "f", "i", "g">>,
     systemSetting |->
        <<"d", "a", "r", "k", " ", "m", "o", "d", "e", " ", "s", "y", "s", "t", "e", "m", " ", "s", "e", "t", "t", "i", "n", "g">>,
     tea |->
        <<"U", "s", "e", "r", " ", "l", "i", "k", "e", "s", " ", "g", "r", "e", "e", "n", " ", "t", "e", "a">>]

Contents == DOMAIN ContentText

(***************************************************************************)
(* manager.ts: query analysis and the thresholds derived from it.          *)
(***************************************************************************)
\* specificPatterns.test(query): the year, the proper-noun pattern, or one of
\* the four domain words anywhere in the string, case-insensitively.
specificPatterns(query) ==
    \/ matchesYear(query)
    \/ matchesProperNoun(query)
    \/ includes(toLowerCase(query), KW_api)
    \/ includes(toLowerCase(query), KW_config)
    \/ includes(toLowerCase(query), KW_system)
    \/ includes(toLowerCase(query), KW_setting)

factualKeywords == {KW_what, KW_when, KW_where, KW_how, KW_which, KW_who}

preferenceKeywords ==
    {KW_prefer, KW_like, KW_want, KW_need, KW_favorite, KW_setting}

\* minSemanticScore: three assignments in this order, the last one that
\* applies wins.
minSemanticScoreOf(isSpecific, isPreference, length) ==
    IF length < 3 THEN 420
    ELSE IF isPreference THEN 360
    ELSE IF isSpecific THEN 300
    ELSE 240

\* complexity counts tenths: Math.min(length / 10, 1).
analyzeQuery(query) ==
    LET words == splitWhitespace(toLowerCase(query))
        length == Len(words)
        isSpecific ==
            specificPatterns(query) \/ \E i \in 1..length : Len(words[i]) > 8
        isFactual == \E kw \in factualKeywords : \E i \in 1..length : words[i] = kw
        isPreference ==
            \E kw \in preferenceKeywords : \E i \in 1..length : words[i] = kw
    IN  [length |-> length,
         isSpecific |-> isSpecific,
         isFactual |-> isFactual,
         isPreference |-> isPreference,
         complexity |-> IF length < 10 THEN length ELSE 10,
         minSemanticScore |->
             minSemanticScoreOf(isSpecific, isPreference, length)]

\* The analysis of each query string.
Analysis == Table([q \in Queries |-> analyzeQuery(QueryText[q])])

Max(a, b) == IF a >= b THEN a ELSE b

Min(a, b) == IF a <= b THEN a ELSE b

\* calculateOptimalLimit without the cap of the scaled limit.
calculateOptimalLimitUncapped(analysis, requestedLimit) ==
    LET baseLimit == IF requestedLimit = 0 THEN 10 ELSE requestedLimit
    IN  IF analysis.isSpecific /\ analysis.complexity < 3
        THEN 10 * Max(3, baseLimit \div 2)
        ELSE IF analysis.complexity > 7
        THEN 12 * baseLimit
        ELSE 10 * baseLimit

\* calculateOptimalLimit, in tenths.  requestedLimit = 0 stands for an omitted
\* limit (requestedLimit || 10).
calculateOptimalLimit(analysis, requestedLimit) ==
    LET baseLimit == IF requestedLimit = 0 THEN 10 ELSE requestedLimit
    IN  IF analysis.isSpecific /\ analysis.complexity < 3
        THEN 10 * Max(3, baseLimit \div 2)
        ELSE IF analysis.complexity > 7
        THEN Min(12 * baseLimit, 120)
        ELSE 10 * baseLimit

\* query.split(/\s+/).length of each query string.
splitLength == Table([q \in Queries |-> Len(splitWhitespace(QueryText[q]))])

\* calculateSemanticThreshold(query, totalResults), for the query string q.
calculateSemanticThreshold(q, totalResults) ==
    IF totalResults > 20 THEN 360
    ELSE IF totalResults > 10 THEN 300
    ELSE IF splitLength[q] <= 2 THEN 270
    ELSE 240

(***************************************************************************)
(* The knowledge table and the two searches.                               *)
(***************************************************************************)
CategoryText ==
    [preference |-> <<"p", "r", "e", "f", "e", "r", "e", "n", "c", "e">>,
     technical |-> <<"t", "e", "c", "h", "n", "i", "c", "a", "l">>,
     fact |-> <<"f", "a", "c", "t">>]

Categories == DOMAIN CategoryText

\* What storeKnowledge is called with: content, category, importance (in
\* tenths).
StoreInputs ==
    { [content |-> "prefers", category |-> "preference", importance |-> 8],
      [content |-> "prefersWeb", category |-> "preference", importance |-> 5],
      [content |-> "apiConfig", category |-> "technical", importance |-> 5],
      [content |-> "systemSetting", category |-> "technical", importance |-> 5],
      [content |-> "tea", category |-> "fact", importance |-> 5] }

\* The elements of a sequence that are not the empty string.
nonEmpty(s) == SelectSeq(s, LAMBDA x : Len(x) > 0)

Range(s) == {s[i] : i \in 1..Len(s)}

\* The ids of a set in ascending order (rowid order).
ascending(S) ==
    [p \in 1..Cardinality(S) |->
        CHOOSE i \in S : Cardinality({j \in S : j < i}) = p - 1]

\* Array.prototype.sort((a, b) => Key(b) - Key(a)): descending and stable.
rankOf(key, i) ==
    1 + Cardinality({j \in DOMAIN key :
            \/ key[j] > key[i]
            \/ key[j] = key[i] /\ j < i})

sortByRank(s, rank) ==
    [p \in 1..Len(s) |-> s[CHOOSE i \in 1..Len(s) : rank[i] = p]]

sortByKey(s, key) ==
    sortByRank(s, Table([i \in 1..Len(s) |-> rankOf(key, i)]))

sortDescending(s, Key(_)) ==
    sortByKey(s, Table([i \in 1..Len(s) |-> Key(s[i])]))

\* Array.prototype.slice(0, limit) with the limit in tenths: the limit is
\* truncated to a whole number.
sliceTenths(s, limit) ==
    LET n == IF limit <= 0 THEN 0 ELSE Min(Len(s), limit \div 10)
    IN  SubSeq(s, 1, n)

\* searchFTS: the terms of `escapedQuery*` (quotes removed, white space
\* collapsed and trimmed; the strings asked here hold no quotes).
ftsTerms ==
    Table([q \in Queries |->
        nonEmpty(splitWhitespace(toLowerCase(QueryText[q])))])

\* The tokens the full-text index holds for a row: those of its content and of
\* its category column (tags are empty).
ftsTokens ==
    Table([c \in Contents |-> Table([cat \in Categories |->
        Range(nonEmpty(splitWhitespace(toLowerCase(ContentText[c]))))
            \cup {CategoryText[cat]}])])

\* knowledge_fts MATCH 'term1 term2 ... termN*': every term but the last is a
\* token of the row and the last is the prefix of one.
ftsMatch ==
    Table([q \in Queries |-> Table([c \in Contents |-> Table([cat \in Categories |->
        LET terms == ftsTerms[q]
            tokens == ftsTokens[c][cat]
        IN  /\ Len(terms) > 0
            /\ \A i \in 1..(Len(terms) - 1) : terms[i] \in tokens
            /\ \E t \in tokens : startsWith(t, terms[Len(terms)])])])])

\* The ids the MATCH (and the category filter) select.
ftsCandidates(rows, q, category) ==
    {id \in DOMAIN rows :
        /\ ftsMatch[q][rows[id].content][rows[id].category]
        /\ category = "none" \/ rows[id].category = category}

\* The rows searchSemantic scans.
semanticCandidates(rows, category) ==
    {id \in DOMAIN rows :
        /\ rows[id].embedding
        /\ category = "none" \/ rows[id].category = category}

Result(rows, id, score, matchType) ==
    [id |-> id, score |-> score, matchType |-> matchType,
     accessCount |-> rows[id].accessCount]

\* searchFTS(query, category, limit) with bm the bm25 magnitude of each
\* matching row: [threw, results].  ORDER BY score LIMIT ?: best first; SQLite
\* refuses a LIMIT that is not a whole number (datatype mismatch) and the
\* statement throws.
ftsRows(rows, ordered, limit, bm) ==
    [i \in 1..Min(Len(ordered), limit \div 10) |->
        Result(rows, ordered[i], bm[ordered[i]], "keyword")]

searchFTS(rows, q, category, limit, bm) ==
    IF Len(ftsTerms[q]) = 0 THEN [threw |-> FALSE, results |-> <<>>]
    ELSE IF limit % 10 # 0 THEN [threw |-> TRUE, results |-> <<>>]
    ELSE [threw |-> FALSE,
          results |->
              ftsRows(rows,
                      sortDescending(ascending(ftsCandidates(rows, q, category)),
                                     LAMBDA id : bm[id]),
                      limit, bm)]

\* searchSemantic(query, category, limit) with sim.of the cosine similarity of
\* each scanned row to the query; sim.ok is false when embedding the query
\* throws, which the catch turns into no results.
\* The scanned rows whose similarity is above the dynamic threshold.
aboveThreshold(scanned, q, sim) ==
    SelectSeq(scanned,
              LAMBDA id : sim.of[id] > calculateSemanticThreshold(q, Len(scanned)))

semanticRows(rows, kept, sim) ==
    [i \in 1..Len(kept) |-> Result(rows, kept[i], sim.of[kept[i]], "semantic")]

searchSemantic(rows, q, category, limit, sim) ==
    IF ~sim.ok THEN <<>>
    ELSE semanticRows(rows,
             sliceTenths(
                 sortDescending(
                     aboveThreshold(ascending(semanticCandidates(rows, category)),
                                    q, sim),
                     LAMBDA id : sim.of[id]),
                 limit),
             sim)

(***************************************************************************)
(* Deduplication, ranking and final limiting.                              *)
(***************************************************************************)
\* calculateWordOverlap(set1, set2): intersection over union as the pair
\* <<numerator, denominator>>; 0 when either set is empty.
calculateWordOverlap(set1, set2) ==
    IF set1 = {} \/ set2 = {} THEN <<0, 1>>
    ELSE <<Cardinality(set1 \cap set2), Cardinality(set1 \cup set2)>>

\* The two word sets smartDeduplication compares: the words longer than three
\* characters of the candidate, and every word of a content already accepted.
contentWords ==
    Table([c \in Contents |->
        LET words == splitWhitespace(toLowerCase(ContentText[c]))
        IN  {words[i] : i \in {j \in 1..Len(words) : Len(words[j]) > 3}}])

seenWords ==
    Table([c \in Contents |-> Range(splitWhitespace(toLowerCase(ContentText[c])))])

\* overlap > 0.7
aboveSeventyPercent(overlap) == 10 * overlap[1] > 7 * overlap[2]

isDuplicate(rows, candidate, seenContent) ==
    \E seen \in seenContent :
        aboveSeventyPercent(
            calculateWordOverlap(contentWords[rows[candidate.id].content],
                                 seenWords[seen]))

RECURSIVE dedupFrom(_, _, _, _, _)
dedupFrom(rows, sorted, i, unique, seenContent) ==
    IF i > Len(sorted) THEN unique
    ELSE IF isDuplicate(rows, sorted[i], seenContent)
         THEN dedupFrom(rows, sorted, i + 1, unique, seenContent)
         ELSE dedupFrom(rows, sorted, i + 1, Append(unique, sorted[i]),
                        seenContent \cup {rows[sorted[i].id].content})

\* smartDeduplication(results)
smartDeduplication(rows, results) ==
    IF Len(results) <= 3 THEN results
    ELSE dedupFrom(rows, sortDescending(results, LAMBDA r : r.score), 1, <<>>, {})

\* calculateRelevanceScore(result, analysis): the raw score plus the recency,
\* access, importance and category bonuses.
calculateRelevanceScore(rows, result, analysis) ==
    LET row == rows[result.id]
    IN  result.score
        + Max(0, 60 - 2 * row.updated)
        + Min(12 * row.accessCount, 120)
        + 9 * row.importance
        + (IF analysis.isPreference /\ row.category = "preference" THEN 180 ELSE 0)
        + (IF analysis.isFactual /\ row.category \in {"fact", "technical"}
           THEN 120 ELSE 0)

Sum(s, Term(_)) ==
    LET RECURSIVE upTo(_)
        upTo(n) == IF n = 0 THEN 0 ELSE upTo(n - 1) + Term(s[n])
    IN  upTo(Len(s))

\* r.score >= avgScore + scoreStdDev * 0.5, in exact arithmetic: with n scores
\* of sum S, d = n * score - S has to be non-negative and 4 n d^2 at least the
\* sum of the (n * s - S)^2.
halfDeviationAbove(results, n, S, d) ==
    /\ d >= 0
    /\ 4 * n * d * d >=
          Sum(results, LAMBDA x : (n * x.score - S) * (n * x.score - S))

scoresAbove(results, S, r) ==
    halfDeviationAbove(results, Len(results), S, Len(results) * r.score - S)

atOrAboveQualityThreshold(results, r) ==
    scoresAbove(results, Sum(results, LAMBDA x : x.score), r)

\* applyAdaptiveLimiting(results, targetLimit, analysis), targetLimit in
\* tenths.
\* highQualityResults.length <= targetLimit * 1.5 ? highQualityResults
\*                                                 : results.slice(0, targetLimit)
highQualityOrSlice(results, highQualityResults, targetLimit) ==
    IF 20 * Len(highQualityResults) <= 3 * targetLimit
    THEN highQualityResults
    ELSE sliceTenths(results, targetLimit)

applyAdaptiveLimiting(results, targetLimit) ==
    IF 10 * Len(results) <= targetLimit THEN results
    ELSE highQualityOrSlice(results,
             SelectSeq(results, LAMBDA r : atOrAboveQualityThreshold(results, r)),
             targetLimit)

\* The merge of queryKnowledge: the keyword results that pass the quality
\* filter, then the semantic results that are new and reach minSemanticScore.
qualityFtsResults(ftsResults, analysis) ==
    SelectSeq(ftsResults,
              LAMBDA r : r.score >= (IF analysis.isSpecific THEN 300 ELSE 600))

mergeSemanticNoIdCheck(results, semanticResults, analysis) ==
    results \o SelectSeq(semanticResults,
                  LAMBDA r : r.score >= analysis.minSemanticScore)

mergeSemantic(results, semanticResults, analysis) ==
    LET existingIds == {results[i].id : i \in 1..Len(results)}
    IN  results \o SelectSeq(semanticResults,
                     LAMBDA r : /\ r.id \notin existingIds
                                /\ r.score >= analysis.minSemanticScore)

\* From the merged candidates to the final results.
rankAndLimit(rows, results, analysis, dynamicLimit) ==
    LET dedupedResults == smartDeduplication(rows, results)
        ranked == sortDescending(dedupedResults,
                      LAMBDA r : calculateRelevanceScore(rows, r, analysis))
    IN  applyAdaptiveLimiting(ranked, dynamicLimit)

\* updateAccessCounts(ids): access_count + 1 and updated_at = now for the rows
\* whose id is listed.
updateAccessCountsOnce(rows, returned) ==
    [id \in DOMAIN rows |->
        IF id \in returned
        THEN [rows[id] EXCEPT !.accessCount = 1, !.updated = 0]
        ELSE rows[id]]

\* updateAccessCounts without the WHERE id IN (...).
updateAccessCountsOfAll(rows, returned) ==
    [id \in DOMAIN rows |->
        [rows[id] EXCEPT !.accessCount = @ + 1, !.updated = 0]]

updateAccessCounts(rows, returned) ==
    [id \in DOMAIN rows |->
        IF id \in returned
        THEN [rows[id] EXCEPT !.accessCount = @ + 1, !.updated = 0]
        ELSE rows[id]]

(***************************************************************************)
(* backup.ts.  A file of the backups directory is a snapshot                *)
(* claudian_memory_<timestamp>.db or pre_restore_<now>.db: its age in days, *)
(* the store content copied into it, and whether its .meta.json sidecar     *)
(* exists.  The directory lists the files newest first.                     *)
(***************************************************************************)
BACKUP_RETENTION_DAYS == 7
MAX_BACKUP_FILES == 10
BACKUP_INTERVAL_HOURS == 24
StreakLength == 12

\* What a call can meet in the file system: nothing, or one of its steps
\* throwing (mkdirSync in init, readdirSync in listBackups, copyFileSync,
\* writeFileSync of the sidecar, unlinkSync in the cleanup; in a restore the
\* copy to pre_restore_* or the copy over the store).
Faults == {"none", "mkdir", "readdir", "copy", "meta", "unlink"}

RestoreFaults == {"none", "precopy", "copy"}

\* The content of the store file.
DbContent ==
    [knowledge |-> knowledge, seq |-> seq, fts |-> fts, facts |-> facts,
     factSeq |-> factSeq, episodes |-> episodes]

Snapshot(content) ==
    [kind |-> "backup", age |-> 0, data |-> content, meta |-> TRUE]

PreRestore(content) ==
    [kind |-> "pre_restore", age |-> 0, data |-> content, meta |-> FALSE]

\* listBackups(): the .db files in timestamp order, newest first (the
\* timestamp of the sidecar, or the mtime of a file without one); empty when
\* readdirSync throws.
listBackups(d, fault) ==
    IF fault = "readdir" THEN <<>>
    ELSE sortDescending([i \in 1..Len(d) |-> i], LAMBDA i : 0 - d[i].age)

\* The directory once the files at the indices `gone` are unlinked.
without(d, gone) ==
    LET kept == SelectSeq([i \in 1..Len(d) |-> i], LAMBDA i : i \notin gone)
    IN  [k \in 1..Len(kept) |-> d[kept[k]]]

\* cleanupOldBackups(): unlink every listed backup older than the retention
\* period or at index MAX_BACKUP_FILES and beyond; a failing unlink is logged
\* and the file stays.
shouldDeleteNoCountCap(d, backups) ==
    {backups[k] : k \in {k \in 1..Len(backups) :
        d[backups[k]].age > BACKUP_RETENTION_DAYS}}

shouldDelete(d, backups) ==
    {backups[k] : k \in {k \in 1..Len(backups) :
        \/ d[backups[k]].age > BACKUP_RETENTION_DAYS
        \/ k - 1 >= MAX_BACKUP_FILES}}

cleanupOldBackups(d, fault) ==
    IF fault = "unlink" THEN d
    ELSE without(d, shouldDelete(d, listBackups(d, fault)))

\* createBackup() without the test of fs.existsSync(dbPath).
createBackupOfAnyStore(d, content, exists, fault) ==
    IF fault = "mkdir" THEN [ret |-> "throw", dir |-> d]
    ELSE [ret |-> "record",
          dir |-> cleanupOldBackups(<<Snapshot(content)>> \o d, fault)]

\* createBackup(): [ret, dir] with ret "record" (the metadata), "null" or
\* "throw".
createBackup(d, content, exists, fault) ==
    IF fault = "mkdir" THEN [ret |-> "throw", dir |-> d]
    ELSE IF ~exists THEN [ret |-> "null", dir |-> d]
    ELSE IF fault = "copy" THEN [ret |-> "null", dir |-> d]
    ELSE IF fault = "meta"
    THEN [ret |-> "null",
          dir |-> <<[Snapshot(content) EXCEPT !.meta = FALSE]>> \o d]
    ELSE [ret |-> "record",
          dir |-> cleanupOldBackups(<<Snapshot(content)>> \o d, fault)]

\* The newest listed backup is younger than 24 hours.
latestIsRecent(d, backups) ==
    Len(backups) > 0 /\ 24 * d[backups[1]].age < BACKUP_INTERVAL_HOURS

hasRecentBackup(d, fault) == latestIsRecent(d, listBackups(d, fault))

\* checkAndBackup(): [ret, dir] with ret "true", "false" or "throw".
\* return backup !== null
backupMade(made) ==
    [ret |-> IF made.ret = "throw" THEN "throw"
             ELSE IF made.ret = "record" THEN "true" ELSE "false",
     dir |-> made.dir]

checkAndBackupAlways(d, content, exists, fault) ==
    backupMade(createBackup(d, content, exists, fault))

checkAndBackup(d, content, exists, fault) ==
    IF fault = "mkdir" THEN [ret |-> "throw", dir |-> d]
    ELSE IF hasRecentBackup(d, fault) THEN [ret |-> "false", dir |-> d]
    ELSE backupMade(createBackup(d, content, exists, fault))

\* autoBackup(): checkAndBackup inside try/catch.  [threw, made, dir]: it never
\* throws; made tells whether a backup record was created.
caught(r) == [threw |-> FALSE, made |-> r.ret = "true", dir |-> r.dir]

autoBackup(d, content, exists, fault) ==
    caught(checkAndBackup(d, content, exists, fault))

\* MemoryBackupSystem.restoreFromBackup(name) for the file at index i of the
\* directory (i = 0: a name that is not there): [ret, dir, content, exists].
restoreOverwritesFirst(d, i, content, exists, fault) ==
    IF i = 0 THEN [ret |-> FALSE, dir |-> d, content |-> content, exists |-> exists]
    ELSE IF fault = "copy"
    THEN [ret |-> FALSE, dir |-> d, content |-> content, exists |-> exists]
    ELSE IF exists /\ fault = "precopy"
    THEN [ret |-> FALSE, dir |-> d, content |-> d[i].data, exists |-> TRUE]
    ELSE [ret |-> TRUE,
          dir |-> IF exists THEN <<PreRestore(d[i].data)>> \o d ELSE d,
          content |-> d[i].data, exists |-> TRUE]

restoreKeepsStore(d, i, content, exists, fault) ==
    IF i = 0 THEN [ret |-> FALSE, dir |-> d, content |-> content, exists |-> exists]
    ELSE IF exists /\ fault = "precopy"
    THEN [ret |-> FALSE, dir |-> d, content |-> content, exists |-> exists]
    ELSE [ret |-> fault # "copy",
          dir |-> IF exists THEN <<PreRestore(content)>> \o d ELSE d,
          content |-> content, exists |-> exists]

restoreSnapshotsFirst(d, i, content, exists, fault) ==
    LET d1 == IF exists THEN <<PreRestore(content)>> \o d ELSE d
    IN  IF i = 0 \/ fault = "copy"
        THEN [ret |-> FALSE, dir |-> d1, content |-> content, exists |-> exists]
        ELSE [ret |-> TRUE, dir |-> d1, content |-> d[i].data, exists |-> TRUE]

restoreFromBackup(d, i, content, exists, fault) ==
    IF i = 0 THEN [ret |-> FALSE, dir |-> d, content |-> content, exists |-> exists]
    ELSE IF exists /\ fault = "precopy"
    THEN [ret |-> FALSE, dir |-> d, content |-> content, exists |-> exists]
    ELSE LET d1 == IF exists THEN <<PreRestore(content)>> \o d ELSE d
         IN  IF fault = "copy"
             THEN [ret |-> FALSE, dir |-> d1, content |-> content, exists |-> exists]
             ELSE [ret |-> TRUE, dir |-> d1, content |-> d[i].data, exists |-> TRUE]

(***************************************************************************)
(* manager.ts: the handlers.  A handler runs to its end in one step; what  *)
(* the store, the embedder and the file system do during the call is       *)
(* chosen with it.                                                         *)
(***************************************************************************)
\* History of the backup records.  n: the length of the current run of records
\* made at least 24 hours apart, counted up to StreakLength; since: the days
\* since the last record; second: the age of the second record of the run (0
\* while the run has none).
NoStreak == [n |-> 0, since |-> 0, second |-> 0]

\* The position the next backup record takes in the run.
nextNth(s) ==
    IF s.n > 0 /\ 24 * s.since >= BACKUP_INTERVAL_HOURS
    THEN Min(s.n + 1, StreakLength)
    ELSE 1

streakAfter(s, made) ==
    IF made
    THEN [n |-> nextNth(s), since |-> 0,
          second |-> IF nextNth(s) > 2 THEN s.second ELSE 0]
    ELSE s

\* The faults a call can meet: mkdirSync runs only while the backups directory
\* does not exist, and then it holds no file.
FaultsAt(d, faults) == IF Len(d) = 0 THEN faults ELSE faults \ {"mkdir"}

\* MemoryManager.init(): nothing once initialized; otherwise the store is
\* opened (and created), backupSystem.init() makes the directory and the
\* model of the embedder is loaded (when embeddings are enabled),
\* backupSystem.init() makes the directory and the startup autoBackup runs.
\* [ok, made, dir]; ok is false when init throws.
initializedWith(b) == [ok |-> TRUE, made |-> b.made, dir |-> b.dir]

init(d, content, isInitialized, fault) ==
    IF isInitialized THEN [ok |-> TRUE, made |-> FALSE, dir |-> d]
    ELSE IF fault \in {"model", "mkdir"}
    THEN [ok |-> FALSE, made |-> FALSE, dir |-> d]
    ELSE initializedWith(autoBackup(d, content, TRUE, fault))

\* The faults an init() of the manager can meet: a model whose load failed
\* stays failed (initPromise is never reset), a loaded model cannot fail.
EmbedFaults(faults) ==
    IF embeddings /\ svc.initPromise = "rejected" THEN {"model"}
    ELSE IF embeddings /\ ~svc.initialized THEN faults
    ELSE faults \ {"model"}

InitFaults(faults) ==
    IF initialized THEN {"none"} ELSE EmbedFaults(FaultsAt(dir, faults))

\* The row storeKnowledge inserts; embedding tells whether it holds a vector
\* (embeddingBuffer stays null when embeddings are off or embed() threw).
NewRowEmbedded(input, embedding) ==
    [content |-> input.content, category |-> input.category,
     importance |-> input.importance, embedding |-> TRUE,
     accessCount |-> 0, updated |-> 0]

NewRow(input, embedding) ==
    [content |-> input.content, category |-> input.category,
     importance |-> input.importance, embedding |-> embedding,
     accessCount |-> 0, updated |-> 0]

\* What storeKnowledge hands to its caller once the insert went through
\* `write`: the promise of autoBackup is not awaited and its rejection is
\* swallowed by .catch(() => {}).  backup is [attempted, ret] of the
\* checkAndBackup that autoBackup ran.
storeReturnAwaitsBackup(write, backup) ==
    IF write = "throw" \/ (backup.attempted /\ backup.ret # "true")
    THEN "throw" ELSE "snippet"

storeReturn(write, backup) ==
    IF write = "throw" THEN "throw" ELSE "snippet"

\* storeKnowledge(input), isCoreFact not set.
StoreKnowledge(inputs, maxRows, faults) ==
    /\ last = NoCall
    /\ seq < maxRows
    /\ \E input \in inputs, write \in WriteResults, f0 \in InitFaults(faults),
          embedOk \in (IF embeddings THEN BOOLEAN ELSE {FALSE}) :
       \E i0 \in {init(dir, DbContent, initialized, f0)},
          id \in {seq + 1},
          row \in {NewRow(input, embedOk)} :
       \E s0 \in {streakAfter(streak, i0.made)} :
          /\ dbExists' = TRUE
          /\ initialized' = i0.ok
          /\ svc' = svcAfterInit(svc, initialized, embeddings, f0)
          /\ UNCHANGED <<embeddings, w, aside>>
          /\ IF ~i0.ok \/ write = "throw"
             THEN /\ UNCHANGED <<knowledge, seq, fts>>
                  /\ dir' = i0.dir
                  /\ streak' = s0
                  /\ last' = [op |-> "storeKnowledge", ret |-> "throw",
                              write |-> IF i0.ok THEN write ELSE "none"]
             ELSE \E f1 \in faults \ {"model", "mkdir"},
                     rows \in {knowledge @@ (id :> row)},
                     index \in {knowledge_ai(fts, id, row)} :
                  \E b \in {checkAndBackup(i0.dir,
                                [DbContent EXCEPT !.knowledge = rows,
                                                  !.seq = id, !.fts = index],
                                TRUE, f1)},
                     attempted \in {~hasRecentBackup(i0.dir, f1)} :
                    /\ knowledge' = rows
                    /\ fts' = index
                    /\ seq' = id
                    /\ dir' = b.dir
                    /\ streak' = streakAfter(s0, b.ret = "true")
                    /\ last' = [op |-> "storeKnowledge",
                                ret |-> storeReturn(write,
                                           [attempted |-> attempted,
                                            ret |-> b.ret]),
                                write |-> write, id |-> id, row |-> row,
                                embedded |-> embedOk,
                                fault |-> f1, backup |-> b.ret,
                                attempted |-> attempted,
                                before |-> i0.dir]

\* deleteKnowledgeById(id)
DeleteKnowledgeById(faults) ==
    /\ last = NoCall
    /\ \E id \in 1..(seq + 1), write \in WriteResults, f0 \in InitFaults(faults) :
       \E i0 \in {init(dir, DbContent, initialized, f0)},
          changes \in {IF id \in DOMAIN knowledge THEN 1 ELSE 0} :
              /\ dbExists' = TRUE
              /\ initialized' = i0.ok
              /\ dir' = i0.dir
              /\ streak' = streakAfter(streak, i0.made)
              /\ svc' = svcAfterInit(svc, initialized, embeddings, f0)
              /\ UNCHANGED <<seq, embeddings, w, aside>>
              /\ IF ~i0.ok \/ write = "throw"
                 THEN /\ UNCHANGED <<knowledge, fts>>
                      /\ last' = [op |-> "deleteKnowledgeById", ret |-> "throw",
                                  id |-> id, before |-> dir,
                                  content |-> DbContent,
                                  wasInitialized |-> initialized,
                                  write |-> IF i0.ok THEN write ELSE "none"]
                 ELSE /\ knowledge' =
                            [k \in DOMAIN knowledge \ {id} |-> knowledge[k]]
                      /\ fts' = IF changes > 0 THEN knowledge_ad(fts, id)
                                ELSE fts
                      /\ last' = [op |-> "deleteKnowledgeById",
                                  ret |-> IF changes > 0 THEN "true" ELSE "false",
                                  id |-> id, before |-> dir,
                                  content |-> DbContent,
                                  wasInitialized |-> initialized,
                                  write |-> write]

\* The caller takes the result; the next call can be made.
Return ==
    /\ last # NoCall
    /\ last' = NoCall
    /\ UNCHANGED <<knowledge, seq, dbExists, embeddings, initialized, dir,
                   streak, w, fts, svc, aside>>

\* What query_memory asks with.  A limit of 0 stands for no limit given.
Limits == {0, 1}

CategoryFilters == {"none", "preference"}

\* bm25 magnitudes (0.3, 0.7, 1.5) and cosine similarities (0.4, 0.425, 0.5,
\* 0.8).
BM25Values == {180, 420, 900}

SimValues == {240, 255, 300, 480}

\* queryKnowledge up to the keyword stage: [threw, results].
keywordResults(found, analysis) ==
    [threw |-> found.threw,
     results |-> qualityFtsResults(found.results, analysis)]

keywordStage(rows, q, category, limit, bm) ==
    keywordResults(
        searchFTS(rows, q, category,
                  2 * calculateOptimalLimit(Analysis[q], limit), bm),
        Analysis[q])

\* config.enableEmbeddings && results.length < dynamicLimit
needsSemantic(enable, results, q, limit) ==
    enable /\ 10 * Len(results) < calculateOptimalLimit(Analysis[q], limit)

\* queryKnowledge from the keyword results to the final results:
\* [merged, deduped, final].
\* The candidates after the semantic stage (which runs only when needed).
mergedResults(rows, enable, results, q, category, dynamicLimit, sim) ==
    IF enable /\ 10 * Len(results) < dynamicLimit
    THEN mergeSemantic(results,
             searchSemantic(rows, q, category,
                            dynamicLimit - 10 * Len(results), sim),
             Analysis[q])
    ELSE results

fromMerged(rows, merged, q, dynamicLimit) ==
    [merged |-> merged,
     deduped |-> smartDeduplication(rows, merged),
     final |-> rankAndLimit(rows, merged, Analysis[q], dynamicLimit)]

afterKeywordStage(rows, enable, results, q, category, limit, sim) ==
    fromMerged(rows,
               mergedResults(rows, enable, results, q, category,
                             calculateOptimalLimit(Analysis[q], limit), sim),
               q, calculateOptimalLimit(Analysis[q], limit))

ids(results) == {results[i].id : i \in 1..Len(results)}

\* What the embedder can make of a query: when the semantic search runs, a
\* similarity for each scanned row, or a throw; nothing otherwise.
SimilaritiesFor(semantic, scanned) ==
    IF semantic
    THEN {[ok |-> TRUE, of |-> f] : f \in [scanned -> SimValues]}
             \cup {[ok |-> FALSE, of |-> <<>>]}
    ELSE {[ok |-> FALSE, of |-> <<>>]}

\* queryKnowledge(input)
QueryKnowledge(queries, faults) ==
    /\ last = NoCall
    /\ \A id \in DOMAIN knowledge : knowledge[id].accessCount < MaxAccess
    /\ \E q \in queries, limit \in Limits, category \in CategoryFilters,
          f0 \in InitFaults(faults) :
       \E i0 \in {init(dir, DbContent, initialized, f0)},
          call \in {[op |-> "queryKnowledge", q |-> q, limit |-> limit,
                     category |-> category]} :
          /\ dbExists' = TRUE
          /\ initialized' = i0.ok
          /\ dir' = i0.dir
          /\ streak' = streakAfter(streak, i0.made)
          /\ svc' = svcAfterInit(svc, initialized, embeddings, f0)
          /\ UNCHANGED <<seq, embeddings, w, aside>>
          /\ IF ~i0.ok
             THEN /\ UNCHANGED <<knowledge, fts>>
                  /\ last' = call @@ [ret |-> "throw", stage |-> "init",
                                      fault |-> f0]
             ELSE \E bm \in [ftsCandidates(knowledge, q, category) -> BM25Values] :
                  \E kw \in {keywordStage(knowledge, q, category, limit, bm)} :
                    IF kw.threw
                    THEN /\ UNCHANGED <<knowledge, fts>>
                         /\ last' = call @@ [ret |-> "throw", stage |-> "searchFTS"]
                    ELSE \E sim \in SimilaritiesFor(
                                        needsSemantic(embeddings, kw.results, q, limit),
                                        semanticCandidates(knowledge, category)) :
                         \E r \in {afterKeywordStage(knowledge, embeddings,
                                        kw.results, q, category, limit, sim)} :
                         \E write \in (IF Len(r.final) > 0 THEN WriteResults
                                       ELSE {"ok"}) :
                            IF write = "throw"
                            THEN /\ UNCHANGED <<knowledge, fts>>
                                 /\ last' = call @@
                                       [ret |-> "throw",
                                        stage |-> "updateAccessCounts"]
                            ELSE /\ knowledge' =
                                       updateAccessCounts(knowledge, ids(r.final))
                                 /\ fts' = afterUpdate(fts,
                                       updateAccessCounts(knowledge, ids(r.final)),
                                       ids(r.final))
                                 /\ last' = call @@
                                       [ret |-> "results",
                                        rows |-> knowledge,
                                        sim |-> sim,
                                        merged |-> r.merged,
                                        deduped |-> r.deduped,
                                        results |-> r.final]

(***************************************************************************)
(* Specification of the retriever: a store left by an earlier process,     *)
(* queries and stores.                                                     *)
(***************************************************************************)
Row(content, category, importance, embedding, accessCount, updated) ==
    [content |-> content, category |-> category, importance |-> importance,
     embedding |-> embedding, accessCount |-> accessCount, updated |-> updated]

\* The stores the retriever starts from.
StoredBefore ==
    { <<Row("prefersWeb", "preference", 5, FALSE, 0, 0),
        Row("prefers", "preference", 8, TRUE, 0, 10),
        Row("apiConfig", "technical", 5, FALSE, 1, 30),
        Row("systemSetting", "technical", 5, FALSE, 0, 0)>>,
      <<Row("apiConfig", "technical", 5, TRUE, 0, 3)>> }

InitQuery ==
    /\ knowledge \in StoredBefore
    /\ seq = Len(knowledge)
    /\ dbExists = TRUE
    /\ embeddings \in BOOLEAN
    /\ initialized = FALSE
    /\ dir = <<>>
    /\ streak = NoStreak
    /\ last = NoCall
    /\ w = WIdle
    /\ fts = indexOf(knowledge)
    /\ InitAside

NextQuery ==
    \/ QueryKnowledge(Queries, {"none"})
    \/ StoreKnowledge({input \in StoreInputs : input.category = "preference"},
                      MaxRows, {"none"})
    \/ Return

SpecQuery == InitQuery /\ [][NextQuery]_vars

\* C1: every queryKnowledge call returns at most the requested limit of
\* results (10 when no limit is given).
C1_AtMostRequestedLimit ==
    (last.op = "queryKnowledge" /\ last.ret = "results")
        => Len(last.results) <= (IF last.limit = 0 THEN 10 ELSE last.limit)

\* C2: a queryKnowledge call that returns leaves the stored access count of
\* each snippet it returned exactly one above the count the snippet had when
\* the call read it, for keyword and for semantic matches alike.
C2_AccessCountIncremented ==
    (last.op = "queryKnowledge" /\ last.ret = "results")
        => \A i \in 1..Len(last.results) :
              LET r == last.results[i]
              IN  /\ r.id \in DOMAIN knowledge
                  /\ r.accessCount = last.rows[r.id].accessCount
                  /\ knowledge[r.id].accessCount = r.accessCount + 1

\* A query that returned a keyword match and a semantic match, one of them a
\* snippet whose stored count was 0 and is now 1.
C2_Witness ==
    /\ last.op = "queryKnowledge"
    /\ last.ret = "results"
    /\ \E i, j \in 1..Len(last.results) :
          /\ last.results[i].matchType = "keyword"
          /\ last.results[j].matchType = "semantic"
          /\ last.results[i].accessCount = 0
          /\ knowledge[last.results[i].id].accessCount = 1

\* C3: when the query has fewer than 3 white-space separated tokens, every
\* result returned with matchType semantic has similarity at least 0.7.
C3_ShortQuerySemanticFloor ==
    (/\ last.op = "queryKnowledge"
     /\ last.ret = "results"
     /\ Len(ftsTerms[last.q]) < 3)
        => \A i \in 1..Len(last.results) :
              last.results[i].matchType = "semantic"
                  => last.results[i].score >= 420

\* C4: when the merged candidates are more than 3 and two of them have a word
\* overlap (intersection over union of their words longer than 3 characters)
\* of at least 0.7, the lower-scored of the two does not survive
\* deduplication.
C4_DuplicatesCollapse ==
    (/\ last.op = "queryKnowledge"
     /\ last.ret = "results"
     /\ Len(last.merged) > 3)
        => \A i, j \in 1..Len(last.merged) :
              LET a == last.merged[i]
                  b == last.merged[j]
                  overlap ==
                      calculateWordOverlap(contentWords[last.rows[a.id].content],
                                           contentWords[last.rows[b.id].content])
              IN  (a.score > b.score /\ 10 * overlap[1] >= 7 * overlap[2])
                      => b.id \notin ids(last.deduped)

(***************************************************************************)
(* Time and the file system around the process, and the handlers of the    *)
(* backup manager.                                                         *)
(***************************************************************************)
\* calculateRelevanceScore gives no recency boost from this many days on.
RecencyDays == 30

ageRows(rows) ==
    [id \in DOMAIN rows |->
        [rows[id] EXCEPT !.updated = Min(@ + 1, RecencyDays)]]

ageFile(f) ==
    [f EXCEPT !.age = Min(@ + 1, BACKUP_RETENTION_DAYS + 1),
              !.data = [@ EXCEPT !.knowledge = ageRows(@)]]

\* A day passes between two calls: every timestamp is a day older.  Ages past
\* the retention period, and a gap past the backup interval, are not told
\* apart.
TimePasses ==
    /\ last = NoCall
    /\ knowledge' = ageRows(knowledge)
    /\ dir' = [i \in 1..Len(dir) |-> ageFile(dir[i])]
    /\ streak' = [streak EXCEPT
                     !.since = Min(@ + 1, BACKUP_INTERVAL_HOURS \div 24),
                     !.second = IF streak.n >= 2
                                THEN Min(@ + 1, BACKUP_RETENTION_DAYS + 1)
                                ELSE 0]
    /\ UNCHANGED <<seq, dbExists, embeddings, initialized, last, w, fts, svc,
                   aside>>

\* The store file is lost while no process runs (the case a restore is for).
LoseStore ==
    /\ last = NoCall
    /\ dbExists
    /\ dbExists' = FALSE
    /\ knowledge' = EmptyContent.knowledge
    /\ seq' = EmptyContent.seq
    /\ fts' = EmptyContent.fts
    /\ facts' = EmptyContent.facts
    /\ factSeq' = EmptyContent.factSeq
    /\ episodes' = EmptyContent.episodes
    /\ initialized' = FALSE
    /\ svc' = SvcInit
    /\ UNCHANGED <<embeddings, dir, streak, last, w, session, callers, startup>>

\* The files of a directory that were written today.
writtenToday(d) == {i \in 1..Len(d) : d[i].age = 0}

\* The faults a call meets in a directory of more than maxFiles files: none.
FaultsWhile(d, faults, maxFiles) ==
    IF Len(d) <= maxFiles THEN faults ELSE {"none"}

\* MemoryManager.createBackup(): init(), then backupSystem.createBackup().
CreateBackup(faults, perDay, maxFiles) ==
    /\ last = NoCall
    /\ Cardinality(writtenToday(dir)) < perDay
    /\ \E f0 \in InitFaults(faults) :
       \E i0 \in {init(dir, DbContent, initialized, f0)} :
       \E s0 \in {streakAfter(streak, i0.made)} :
          /\ dbExists' = TRUE
          /\ initialized' = i0.ok
          /\ svc' = svcAfterInit(svc, initialized, embeddings, f0)
          /\ UNCHANGED <<knowledge, seq, embeddings, w, fts, aside>>
          /\ IF ~i0.ok
             THEN /\ dir' = i0.dir
                  /\ streak' = s0
                  /\ last' = [op |-> "createBackup", ret |-> "throw",
                              fault |-> f0, before |-> dir]
             ELSE \E f \in FaultsWhile(i0.dir, faults \ {"model", "mkdir"},
                                       maxFiles) :
                  \E r \in {createBackup(i0.dir, DbContent, TRUE, f)} :
                    /\ dir' = r.dir
                    /\ streak' = streakAfter(s0, r.ret = "record")
                    /\ last' = [op |-> "createBackup", ret |-> r.ret,
                                fault |-> f, before |-> i0.dir]

\* MemoryBackupSystem.checkAndBackup(), called on the backup system itself
\* ("call this periodically").
CheckAndBackup(faults, maxFiles) ==
    /\ last = NoCall
    /\ \E f \in FaultsWhile(dir, FaultsAt(dir, faults \ {"model"}), maxFiles) :
       \E r \in {checkAndBackup(dir, DbContent, dbExists, f)} :
          /\ dir' = r.dir
          /\ streak' = streakAfter(streak, r.ret = "true")
          /\ last' = [op |-> "checkAndBackup", ret |-> r.ret, fault |-> f,
                      before |-> dir]
    /\ UNCHANGED <<knowledge, seq, dbExists, embeddings, initialized, w, fts,
                   svc, aside>>

\* MemoryManager.restoreFromBackup(name): the restore of the backup system
\* and, when it succeeded, initialized = false and init() again (the
\* directory exists, so only the model load and its autoBackup can meet a
\* fault; a failing init() makes the call throw).
RestoreFromBackup(faults, initFaults, maxFiles) ==
    /\ last = NoCall
    /\ Len(dir) < maxFiles
    /\ \E i \in 0..Len(dir), f \in faults :
       \E r \in {restoreFromBackup(dir, i, DbContent, dbExists, f)},
          call \in {[op |-> "restoreFromBackup", i |-> i, fault |-> f,
                     before |-> dir, content |-> DbContent,
                     existed |-> dbExists]} :
          /\ knowledge' = r.content.knowledge
          /\ seq' = r.content.seq
          /\ fts' = r.content.fts
          /\ facts' = r.content.facts
          /\ factSeq' = r.content.factSeq
          /\ episodes' = r.content.episodes
          /\ dbExists' = r.exists
          /\ UNCHANGED <<embeddings, w, session, callers, startup>>
          /\ IF r.ret
             THEN \E f1 \in EmbedFaults(initFaults \ {"mkdir"}) :
                  \E i1 \in {init(r.dir, r.content, FALSE, f1)} :
                    /\ initialized' = i1.ok
                    /\ svc' = svcAfterInit(svc, FALSE, embeddings, f1)
                    /\ dir' = i1.dir
                    /\ streak' = streakAfter(streak, i1.made)
                    /\ last' = call @@ [ret |-> IF i1.ok THEN "true"
                                                ELSE "throw"]
             ELSE /\ dir' = r.dir
                  /\ UNCHANGED <<initialized, streak, svc>>
                  /\ last' = call @@ [ret |-> "false"]

(***************************************************************************)
(* Specifications of the backup manager over time, with every file-system  *)
(* fault: manual backups and days passing, and scheduled checks and days   *)
(* passing.                                                                *)
(***************************************************************************)
BackupsPerDay == 2
MaxFaultFiles == 1

InitBackup ==
    /\ knowledge = <<>>
    /\ seq = 0
    /\ dbExists \in BOOLEAN
    /\ embeddings = TRUE
    /\ initialized = FALSE
    /\ dir = <<>>
    /\ streak = NoStreak
    /\ last = NoCall
    /\ w = WIdle
    /\ fts = indexOf(knowledge)
    /\ InitAside

NextBackup ==
    \/ CreateBackup(Faults, BackupsPerDay, MaxFaultFiles)
    \/ TimePasses
    \/ Return

SpecBackup == InitBackup /\ [][NextBackup]_vars

NextCheck ==
    \/ CheckAndBackup(Faults, MaxFaultFiles)
    \/ TimePasses
    \/ Return

SpecCheck == InitBackup /\ [][NextCheck]_vars

\* The backups listBackups returns for the directory as it is.
listed == listBackups(dir, "none")

\* C5: after a createBackup call that returned a record (and met no
\* file-system fault), listBackups returns at most MAX_BACKUP_FILES records and
\* none older than BACKUP_RETENTION_DAYS days; when the record is the twelfth
\* of a run of backups made at least 24 hours apart, the first two of the run
\* are gone.
C5_RetentionAfterBackup ==
    (last.op = "createBackup" /\ last.ret = "record" /\ last.fault = "none")
        => /\ Len(listed) <= MAX_BACKUP_FILES
           /\ \A k \in 1..Len(listed) :
                 dir[listed[k]].age <= BACKUP_RETENTION_DAYS
           /\ streak.n = StreakLength
                 => \A i \in 1..Len(dir) : dir[i].age < streak.second

\* The twelfth backup of a run has just been made, and the call removed a
\* backup that had passed the retention period.
C5_Witness ==
    /\ last.op = "createBackup"
    /\ last.ret = "record"
    /\ last.fault = "none"
    /\ streak.n = StreakLength
    /\ Len(listed) = BACKUP_RETENTION_DAYS + 1
    /\ \E i \in 1..Len(last.before) :
          last.before[i].age > BACKUP_RETENTION_DAYS

\* C8: checkAndBackup creates no snapshot and returns false when the newest
\* backup it lists is less than 24 hours old; otherwise it goes on to
\* createBackup and returns true exactly when a backup record was created.
C8_CheckAndBackup ==
    last.op = "checkAndBackup"
        => LET before == last.before
               seen == IF last.fault = "readdir" THEN {}
                       ELSE 1..Len(before)
               recent == \E i \in seen :
                            /\ 24 * before[i].age < BACKUP_INTERVAL_HOURS
                            /\ \A j \in seen : before[j].age >= before[i].age
               created == /\ Len(dir) > 0
                          /\ dir # before
                          /\ dir[1].kind = "backup"
                          /\ dir[1].age = 0
                          /\ dir[1].meta
           IN  IF recent
               THEN last.ret = "false" /\ dir = before
               ELSE (last.ret = "true") <=> created

\* A check that found two backups, the newer one made the day before, and
\* made a third.
C8_Witness ==
    /\ last.op = "checkAndBackup"
    /\ last.ret = "true"
    /\ Len(last.before) >= 2
    /\ last.before[1].age = 1
    /\ dir[1].age = 0
    /\ Len(dir) = Len(last.before) + 1

(***************************************************************************)
(* Specification of backup and restore: writes, manual backups, restores   *)
(* (with the faults a restore can meet) and the loss of the store file.    *)
(***************************************************************************)
MaxFiles == 3

RestoreInputs == {input \in StoreInputs : input.content = "tea"}

NextRestore ==
    \/ StoreKnowledge(RestoreInputs, MaxRows, {"none"})
    \/ DeleteKnowledgeById({"none"})
    \/ CreateBackup({"none"}, MaxFiles, MaxFiles)
    \/ RestoreFromBackup(RestoreFaults, Faults, MaxFiles)
    \/ LoseStore
    \/ Return

SpecRestore == InitCommon /\ [][NextRestore]_vars

\* The pre_restore_* files of a directory, newest first.
preRestores(d) == SelectSeq(d, LAMBDA f : f.kind = "pre_restore")

\* The call left a new pre_restore_* file holding the store as it was before.
leftPreRestore ==
    /\ Len(preRestores(dir)) = Len(preRestores(last.before)) + 1
    /\ preRestores(dir)[1].data = last.content

InitStore ==
    /\ knowledge = <<>>
    /\ seq = 0
    /\ dbExists = TRUE
    /\ embeddings \in BOOLEAN
    /\ initialized = FALSE
    /\ \/ dir = <<>> /\ streak = NoStreak
       \/ /\ dir = <<[Snapshot(EmptyContent)
                         EXCEPT !.age = 1]>>
          /\ streak = [n |-> 1, since |-> 1, second |-> 0]
    /\ last = NoCall
    /\ w = WIdle
    /\ fts = indexOf(knowledge)
    /\ InitAside

NextStore ==
    \/ StoreKnowledge(StoreInputs, MaxRows, Faults)
    \/ Return

SpecStore == InitStore /\ [][NextStore]_vars

\* C9: when the insert of storeKnowledge went through, the call returns the
\* stored snippet and the row is in the table, whatever the auto-backup it
\* triggered met (a failing listing, copy, metadata write or cleanup).
C9_BackupFailureDoesNotFailStore ==
    (last.op = "storeKnowledge" /\ last.write = "ok")
        => /\ last.ret = "snippet"
           /\ last.id \in DOMAIN knowledge
           /\ knowledge[last.id] = last.row

\* A store whose auto-backup tried to make a backup and failed at the copy.
C9_Witness ==
    /\ last.op = "storeKnowledge"
    /\ last.ret = "snippet"
    /\ last.attempted
    /\ last.fault = "copy"
    /\ last.backup = "false"
    /\ knowledge[last.id] = last.row

(***************************************************************************)
(* Specification of the embedding service alone: init() / embed() calls    *)
(* that interleave at their awaits while the model loads.                  *)
(***************************************************************************)
\* Everything but the embedding service and the core tables.
store == <<knowledge, seq, dbExists, embeddings, initialized, dir, streak, last,
           w, fts>>

\* EmbeddingService.init() up to its first await, which runs without
\* interruption: [svc, pc, joined].
enterInitNoGuard(s) ==
    IF s.initialized THEN [svc |-> s, pc |-> "proceeded", joined |-> FALSE]
    ELSE [svc |-> [s EXCEPT !.initPromise = "pending", !.loads = @ + 1],
          pc |-> "awaiting", joined |-> FALSE]

\* init() that forgets a failed load: a rejected initPromise is treated as no
\* promise at all, and the load is started again.
enterInitRetriesAfterFailure(s) ==
    IF s.initialized THEN [svc |-> s, pc |-> "proceeded", joined |-> FALSE]
    ELSE IF s.initPromise = "pending"
    THEN [svc |-> s, pc |-> "awaiting", joined |-> TRUE]
    ELSE [svc |-> [s EXCEPT !.initPromise = "pending", !.loads = @ + 1],
          pc |-> "awaiting", joined |-> FALSE]

enterInit(s) ==
    IF s.initialized THEN [svc |-> s, pc |-> "proceeded", joined |-> FALSE]
    ELSE IF s.initPromise # "null"
    THEN [svc |-> s, pc |-> "awaiting", joined |-> s.initPromise = "pending"]
    ELSE [svc |-> [s EXCEPT !.initPromise = "pending", !.loads = @ + 1],
          pc |-> "awaiting", joined |-> FALSE]

\* A caller calls init(), directly or as the first statement of embed().
InitCall(c) ==
    /\ callers[c].pc = "idle"
    /\ \E r \in {enterInit(svc)} :
          /\ svc' = r.svc
          /\ callers' = [callers EXCEPT ![c] = [pc |-> r.pc, joined |-> r.joined]]
    /\ UNCHANGED <<store, facts, factSeq, episodes, session, startup>>

\* doInit() ends: the model is loaded and initialized is set, or the import /
\* the pipeline threw and the promise is rejected.
LoadSettles ==
    /\ svc.initPromise = "pending"
    /\ \/ svc' = [svc EXCEPT !.initialized = TRUE, !.initPromise = "resolved"]
       \/ svc' = [svc EXCEPT !.initPromise = "rejected"]
    /\ UNCHANGED <<store, aside>>

\* The await of initPromise continues once the promise is settled.
Resume(c) ==
    /\ callers[c].pc = "awaiting"
    /\ svc.initPromise \in {"resolved", "rejected"}
    /\ callers' = [callers EXCEPT ![c].pc =
                      IF svc.initPromise = "resolved" THEN "proceeded"
                      ELSE "threw"]
    /\ UNCHANGED <<store, svc, facts, factSeq, episodes, session, startup>>

\* The call is over; the caller may call again.
Finish(c) ==
    /\ callers[c].pc \in {"proceeded", "threw"}
    /\ callers' = [callers EXCEPT ![c] = [pc |-> "idle", joined |-> FALSE]]
    /\ UNCHANGED <<store, svc, facts, factSeq, episodes, session, startup>>

NextEmbed ==
    \/ \E c \in Callers : InitCall(c)
    \/ LoadSettles
    \/ \E c \in Callers : Resume(c)
    \/ \E c \in Callers : Finish(c)

SpecEmbed == InitCommon /\ [][NextEmbed]_vars

\* C11: however many init() / embed() calls are made while the model is not
\* loaded, doInit is started at most once, and a call goes on past its init()
\* only when that load has completed.
C11_SingleLoad ==
    /\ svc.loads <= 1
    /\ \A c \in Callers :
          callers[c].pc = "proceeded"
              => svc.loads = 1 /\ svc.initialized /\ svc.initPromise = "resolved"

\* Every caller has gone on, all but the one that started the load having
\* joined it while it was in flight.
C11_Witness ==
    /\ \A c \in Callers : callers[c].pc = "proceeded"
    /\ Cardinality({c \in Callers : callers[c].joined}) = MaxCallers - 1
    /\ svc.loads = 1

\* C34: the model load is attempted at most once over the lifetime of the
\* service, a failed load included: once doInit has failed the service never
\* changes again (no new load is started), and every call that awaits the
\* rejected promise throws its error; none goes on past init().
C34_FailedLoadIsFinal ==
    [][/\ svc'.loads <= 1
       /\ svc.initPromise = "rejected"
             => /\ svc' = svc
                /\ \A c \in Callers :
                      callers'[c].pc # callers[c].pc
                          => /\ callers'[c].pc # "proceeded"
                             /\ callers[c].pc = "awaiting"
                                    => callers'[c].pc = "threw"]_vars

\* The load has failed and at least one call made after the failure (it did
\* not start the load and found no load in flight) has thrown.
C34_Witness ==
    /\ svc.initPromise = "rejected"
    /\ svc.loads = 1
    /\ Cardinality({c \in Callers :
                       callers[c].pc = "threw" /\ ~callers[c].joined}) >= 2

(***************************************************************************)
(* Specification of the retriever with an embedder that can fail: the      *)
(* model may fail to load, and embed() may throw for a content.            *)
(***************************************************************************)
DegradedFaults == {"none", "model"}

NextDegraded ==
    \/ QueryKnowledge({"api", "darkMode"}, DegradedFaults)
    \/ StoreKnowledge({input \in StoreInputs : input.category = "preference"},
                      MaxRows, DegradedFaults)
    \/ Return

SpecDegraded == InitQuery /\ [][NextDegraded]_vars

\* C12: a queryKnowledge call made with embeddings enabled while the model of
\* the embedder has failed to load does not throw: it returns results, among
\* them the keyword matches of the query.
C12_KeywordSearchSurvivesModelFailure ==
    (/\ last.op = "queryKnowledge"
     /\ embeddings
     /\ svc.initPromise = "rejected")
        => last.ret = "results"

\* C13: when embeddings are enabled and embed() threw for the content, a
\* storeKnowledge whose insert went through returns the snippet, the row is in
\* the table without a vector, and the full-text index holds it, so that
\* every query whose terms match the content selects it.
C13_StoredWithoutVector ==
    (/\ last.op = "storeKnowledge"
     /\ last.write = "ok"
     /\ embeddings
     /\ ~last.embedded)
        => /\ last.ret = "snippet"
           /\ last.id \in DOMAIN knowledge
           /\ knowledge[last.id] = last.row
           /\ ~knowledge[last.id].embedding
           /\ last.id \in DOMAIN fts
           /\ fts[last.id] = indexed(last.row)
           /\ \A q \in Queries :
                 ftsMatch[q][last.row.content][last.row.category]
                     => last.id \in ftsCandidates(knowledge, q, "none")

\* A snippet was stored although its embedding could not be generated, and
\* the keyword search for "dark mode" selects it.
C13_Witness ==
    /\ last.op = "storeKnowledge"
    /\ last.ret = "snippet"
    /\ embeddings
    /\ ~last.embedded
    /\ ~knowledge[last.id].embedding
    /\ last.id \in ftsCandidates(knowledge, "darkMode", "none")

(***************************************************************************)
(* manager.ts, core.ts: the reflection pipeline.                           *)
(***************************************************************************)
MaxSessions == 2
MaxFacts == 2
MaxEpisodes == 2

\* What generateSessionId can return (Date.now() and six random characters:
\* nothing keeps it apart from an earlier identifier).
SessionIds == 1..MaxSessions

\* A fact of the collaborator's JSON.  typed: content and category are
\* strings and importance is a number.  The category is whatever string the
\* collaborator wrote ("goal" is none of the categories of MemoryCategory).
ExtractedFacts ==
    { [content |-> "tea", category |-> "fact", importance |-> 9,
       isCoreFact |-> TRUE, typed |-> TRUE],
      [content |-> "prefers", category |-> "preference", importance |-> 8,
       isCoreFact |-> FALSE, typed |-> TRUE],
      [content |-> "prefersWeb", category |-> "preference", importance |-> 5,
       isCoreFact |-> FALSE, typed |-> FALSE],
      [content |-> "apiConfig", category |-> "goal", importance |-> 7,
       isCoreFact |-> TRUE, typed |-> TRUE] }

FactLists ==
    UNION {[1..n -> ExtractedFacts] : n \in 0..MaxFacts}

\* What the text-generation collaborator answers: the request throws
\* ("error"), the message holds no text block ("notext"), the text holds no
\* {...} ("nojson"), JSON.parse throws ("badjson"), or it holds an object.
Responses ==
    {[kind |-> k, facts |-> <<>>] :
        k \in {"error", "notext", "nojson", "badjson"}}
    \cup {[kind |-> "object", facts |-> f] : f \in FactLists}

\* parseReflectionResponse(text): [ok, extractedFacts]; ok is false for null.
parseReflectionResponseLenient(response) ==
    [ok |-> TRUE, extractedFacts |-> SelectSeq(response.facts, LAMBDA f : f.typed)]

parseReflectionResponse(response) ==
    IF response.kind # "object" THEN [ok |-> FALSE, extractedFacts |-> <<>>]
    ELSE [ok |-> TRUE,
          extractedFacts |-> SelectSeq(response.facts, LAMBDA f : f.typed)]

\* The tables, the backups directory and the writes made so far (log) while a
\* reflection runs; ok turns false when a write throws.
Tables(log) ==
    [knowledge |-> knowledge, seq |-> seq, fts |-> fts, facts |-> facts,
     factSeq |-> factSeq, episodes |-> episodes, dir |-> dir,
     streak |-> streak, log |-> log, ok |-> TRUE]

contentOf(st) ==
    [knowledge |-> st.knowledge, seq |-> st.seq, fts |-> st.fts,
     facts |-> st.facts, factSeq |-> st.factSeq, episodes |-> st.episodes]

Written(table, id, source) == [table |-> table, id |-> id, source |-> source]

\* saveEpisode: INSERT INTO episodes; session_id is UNIQUE, and the
\* constraint error is no lock error, so writeWithRetry rethrows it at once.
saveEpisodeNoUnique(st, sid, messageCount, write) ==
    IF write = "throw" THEN [st EXCEPT !.ok = FALSE]
    ELSE [st EXCEPT
             !.episodes = Append(@, [session |-> sid, messages |-> messageCount]),
             !.log = Append(@, Written("episodes", Len(st.episodes) + 1, "none"))]

saveEpisode(st, sid, messageCount, write) ==
    IF write = "throw" THEN [st EXCEPT !.ok = FALSE]
    ELSE IF \E i \in 1..Len(st.episodes) : st.episodes[i].session = sid
    THEN [st EXCEPT !.ok = FALSE]
    ELSE [st EXCEPT
             !.episodes = Append(@, [session |-> sid, messages |-> messageCount]),
             !.log = Append(@, Written("episodes", Len(st.episodes) + 1, "none"))]

\* CoreContext.addFact(content, category, importance)
addFact(st, fact) ==
    [st EXCEPT
        !.facts = (st.factSeq + 1 :>
                      [content |-> fact.content, category |-> fact.category,
                       importance |-> fact.importance, active |-> TRUE]) @@ @,
        !.factSeq = @ + 1,
        !.log = Append(@, Written("core_facts", st.factSeq + 1, "none"))]

\* storeKnowledge({..., source: 'reflection'}) of an initialized manager: the
\* insert, then the autoBackup that is not awaited.
inserted(st, id, row) ==
    [st EXCEPT !.knowledge = (id :> row) @@ @,
               !.seq = id,
               !.fts = knowledge_ai(@, id, row),
               !.log = Append(@, Written("knowledge", id, "reflection"))]

backedUp(st, b) ==
    [st EXCEPT !.dir = b.dir, !.streak = streakAfter(@, b.ret = "true")]

afterAutoBackup(st) ==
    backedUp(st, checkAndBackup(st.dir, contentOf(st), TRUE, "none"))

storeReflected(st, fact, embedOk) ==
    afterAutoBackup(inserted(st, st.seq + 1, NewRow(fact, embedOk)))

\* for (const fact of result.extractedFacts): a write that throws ends the
\* loop in the catch of reflectAndSummarize.
RECURSIVE applyFacts(_, _, _, _, _)
applyFacts(st, extracted, i, writes, embedOk) ==
    IF i > Len(extracted) THEN st
    ELSE IF writes[i + 1] = "throw" THEN [st EXCEPT !.ok = FALSE]
    ELSE IF extracted[i].isCoreFact
    THEN applyFacts(addFact(st, extracted[i]), extracted, i + 1, writes, embedOk)
    ELSE applyFacts(storeReflected(st, extracted[i], embedOk), extracted,
                    i + 1, writes, embedOk)

applied(st, result, writes, embedOk) ==
    IF ~st.ok THEN st
    ELSE applyFacts(st, result.extractedFacts, 1, writes, embedOk)

\* reflectAndSummarize(messages) after init(): [called, ret, st]; called
\* tells whether client.messages.create ran.
reflected(called, st) ==
    [called |-> called, ret |-> IF st.ok THEN "result" ELSE "null", st |-> st]

tooFewMessagesOnlyNone(messageCount) == messageCount < 1

tooFewMessages(messageCount) == messageCount < 2

reflectWith(st, messageCount, result, sid, writes, embedOk) ==
    IF tooFewMessages(messageCount)
    THEN reflected(FALSE, [st EXCEPT !.ok = FALSE])
    ELSE IF ~result.ok THEN reflected(TRUE, [st EXCEPT !.ok = FALSE])
    ELSE reflected(TRUE,
             applied(saveEpisode(st, sid, messageCount, writes[1]),
                     result, writes, embedOk))

\* reflectAndSummarize(messages)
ReflectAndSummarize(faults, writeResults) ==
    /\ last = NoCall
    /\ seq < MaxRows
    /\ factSeq < MaxRows
    /\ Len(episodes) < MaxEpisodes
    /\ \E messageCount \in 0..2, response \in Responses,
          f0 \in InitFaults(faults),
          writes \in [1..(MaxFacts + 1) -> writeResults],
          embedOk \in (IF embeddings THEN BOOLEAN ELSE {FALSE}) :
       \E i0 \in {init(dir, DbContent, initialized, f0)},
          result \in {parseReflectionResponse(response)},
          call \in {[op |-> "reflectAndSummarize", messages |-> messageCount,
                     response |-> response, before |-> DbContent,
                     session |-> session]} :
          /\ dbExists' = TRUE
          /\ initialized' = i0.ok
          /\ svc' = svcAfterInit(svc, initialized, embeddings, f0)
          /\ UNCHANGED <<embeddings, w, session, callers, startup>>
          /\ IF ~i0.ok
             THEN /\ dir' = i0.dir
                  /\ streak' = streakAfter(streak, i0.made)
                  /\ UNCHANGED <<knowledge, seq, fts, facts, factSeq, episodes>>
                  /\ last' = call @@ [ret |-> "throw"]
             ELSE \E r \in {reflectWith(
                               [Tables(<<>>) EXCEPT
                                   !.dir = i0.dir,
                                   !.streak = streakAfter(streak, i0.made)],
                               messageCount, result, session, writes,
                               embedOk)} :
                    /\ knowledge' = r.st.knowledge
                    /\ seq' = r.st.seq
                    /\ fts' = r.st.fts
                    /\ facts' = r.st.facts
                    /\ factSeq' = r.st.factSeq
                    /\ episodes' = r.st.episodes
                    /\ dir' = r.st.dir
                    /\ streak' = r.st.streak
                    /\ last' = call @@
                          [ret |-> r.ret, called |-> r.called,
                           log |-> r.st.log,
                           lockFailure |->
                               \E k \in 1..(Len(result.extractedFacts) + 1) :
                                   writes[k] = "throw"]

\* newSession()
NewSession ==
    /\ last = NoCall
    /\ \E sid \in SessionIds : session' = sid
    /\ UNCHANGED <<store, svc, facts, factSeq, episodes, callers, startup>>

(***************************************************************************)
(* Specification of the reflection pipeline: reflections and new sessions. *)
(***************************************************************************)
NextReflect ==
    \/ ReflectAndSummarize({"none"}, WriteResults)
    \/ NewSession
    \/ Return

SpecReflect == InitCommon /\ [][NextReflect]_vars

\* C14: the episodes table never holds two Episodes of one session
\* identifier, whatever reflections and new sessions were made.
C14_OneEpisodePerSession ==
    \A i, j \in 1..Len(episodes) :
        episodes[i].session = episodes[j].session => i = j

\* A second reflection of a session that has its Episode was turned down.
C14_Witness ==
    /\ last.op = "reflectAndSummarize"
    /\ last.messages >= 2
    /\ last.response.kind = "object"
    /\ ~last.lockFailure
    /\ last.ret = "null"
    /\ \E i \in 1..Len(episodes) : episodes[i].session = last.session
    /\ episodes = last.before.episodes

\* C15: a reflection of two or more turns whose response was parsed (and whose
\* writes met no lock failure) persists one Episode of the current session and
\* then, for each extracted fact in order, one Core Fact when the fact is
\* flagged core and otherwise one Knowledge Snippet with source reflection,
\* the Episode being written first.
C15_ParsedReflectionApplied ==
    (/\ last.op = "reflectAndSummarize"
     /\ last.messages >= 2
     /\ last.response.kind = "object"
     /\ ~last.lockFailure)
        => LET extracted == parseReflectionResponse(last.response).extractedFacts
           IN  /\ Len(episodes) = Len(last.before.episodes) + 1
               /\ episodes[Len(episodes)].session = last.session
               /\ Len(last.log) = Len(extracted) + 1
               /\ last.log[1].table = "episodes"
               /\ \A k \in 1..Len(extracted) :
                     IF extracted[k].isCoreFact
                     THEN last.log[k + 1].table = "core_facts"
                     ELSE /\ last.log[k + 1].table = "knowledge"
                          /\ last.log[k + 1].source = "reflection"

\* C16: a reflection whose response holds no JSON object, or one that
\* JSON.parse refuses, returns null and leaves the episodes, core_facts and
\* knowledge tables as they were.
C16_UnparseableDiscarded ==
    (/\ last.op = "reflectAndSummarize"
     /\ last.response.kind \in {"nojson", "badjson"})
        => /\ last.ret = "null"
           /\ last.log = <<>>
           /\ DbContent = last.before

\* The collaborator was asked about two turns and answered with broken JSON.
C16_Witness ==
    /\ last.op = "reflectAndSummarize"
    /\ last.messages = 2
    /\ last.called
    /\ last.response.kind = "badjson"
    /\ last.ret = "null"
    /\ episodes = <<>>

\* C17: a reflection of fewer than two turns returns null without calling the
\* collaborator and without persisting an Episode.
C17_TooFewTurns ==
    (last.op = "reflectAndSummarize" /\ last.messages < 2)
        => /\ last.ret = "null"
           /\ ~last.called
           /\ episodes = last.before.episodes
           /\ last.log = <<>>

\* One turn was handed in; the collaborator, had it been asked, would have
\* answered with facts.
C17_Witness ==
    /\ last.op = "reflectAndSummarize"
    /\ last.messages = 1
    /\ last.response.kind = "object"
    /\ Len(last.response.facts) > 0
    /\ last.ret = "null"
    /\ ~last.called

\* C38: a reflectAndSummarize call that returned null has left the store as
\* it was: no Episode, no Core Fact and no Knowledge Snippet was added, also
\* when a write of the store threw part-way through the extracted facts.
C38_NullLeavesStoreUnchanged ==
    (last.op = "reflectAndSummarize" /\ last.ret = "null")
        => /\ DbContent = last.before
           /\ last.log = <<>>

(***************************************************************************)
(* core.ts: the core facts and the prompt section built from them.         *)
(***************************************************************************)
\* SELECT * FROM core_facts WHERE active = 1 ORDER BY importance DESC,
\* created_at ASC: the rows as facts, rowToFact reading active = 1 as true.
rowToFact(rows, id) ==
    [id |-> id, content |-> rows[id].content, category |-> rows[id].category,
     active |-> rows[id].active]

factsOf(rows, selected) ==
    [k \in 1..Len(selected) |-> rowToFact(rows, selected[k])]

getAllFacts(rows) ==
    factsOf(rows, sortDescending(ascending(DOMAIN rows),
                                 LAMBDA id : rows[id].importance))

getActiveFacts(rows) ==
    factsOf(rows, sortDescending(ascending({id \in DOMAIN rows : rows[id].active}),
                                 LAMBDA id : rows[id].importance))

\* count(): SELECT COUNT(*) FROM core_facts WHERE active = 1
count(rows) == Cardinality({id \in DOMAIN rows : rows[id].active})

\* buildPromptSection(): the facts getActiveFacts returns, grouped by
\* category in the order of categoryOrder; a section is the category and the
\* contents of its facts (one "- content" line each).  The text is the empty
\* string for no active fact, and the "## Core Context" heading followed by
\* the sections otherwise.
categoryOrder ==
    <<"identity", "instruction", "preference", "project", "personal", "fact",
      "technical">>

linesOf(found, category) ==
    [category |-> category,
     lines |-> [k \in 1..Len(found) |-> found[k].content]]

sectionOf(active, category) ==
    linesOf(SelectSeq(active, LAMBDA f : f.category = category), category)

sectionsOf(active) ==
    SelectSeq([c \in 1..Len(categoryOrder) |-> sectionOf(active, categoryOrder[c])],
              LAMBDA section : Len(section.lines) > 0)

EmptySection == [heading |-> FALSE, sections |-> <<>>]

buildPromptSection(rows) ==
    IF Len(getActiveFacts(rows)) = 0 THEN EmptySection
    ELSE [heading |-> TRUE, sections |-> sectionsOf(getActiveFacts(rows))]

\* updateFact(id, updates): the UPDATE of the fields that are given (with
\* updated_at), or nothing and false for no field.  [ret, rows]
FactUpdates ==
    { [field |-> "none", value |-> FALSE],
      [field |-> "active", value |-> FALSE],
      [field |-> "active", value |-> TRUE],
      [field |-> "content", value |-> "prefers"],
      [field |-> "category", value |-> "technical"] }

updated(row, updates) ==
    IF updates.field = "active" THEN [row EXCEPT !.active = updates.value]
    ELSE IF updates.field = "content" THEN [row EXCEPT !.content = updates.value]
    ELSE [row EXCEPT !.category = updates.value]

updateFact(rows, id, updates) ==
    IF updates.field = "none" THEN [ret |-> "false", rows |-> rows]
    ELSE IF id \notin DOMAIN rows THEN [ret |-> "false", rows |-> rows]
    ELSE [ret |-> "true", rows |-> [rows EXCEPT ![id] = updated(@, updates)]]

\* The call of a CoreContext method is over: it threw when its write did.
CoreCall(op, id, write, r) ==
    /\ facts' = IF write = "throw" THEN facts ELSE r.rows
    /\ last' = [op |-> op, id |-> id,
                ret |-> IF write = "throw" THEN "throw" ELSE r.ret]

\* coreContext.addFact(content, category, importance)
AddFact ==
    /\ last = NoCall
    /\ factSeq < MaxRows
    /\ \E fact \in ExtractedFacts, write \in WriteResults :
          /\ CoreCall("addFact", factSeq + 1, write,
                      [ret |-> "fact", rows |-> addFact(Tables(<<>>), fact).facts])
          /\ factSeq' = IF write = "throw" THEN factSeq ELSE factSeq + 1
    /\ UNCHANGED <<knowledge, seq, dbExists, embeddings, initialized, dir,
                   streak, w, fts, svc, episodes, session, callers, startup>>

\* coreContext.updateFact(id, updates)
UpdateFact ==
    /\ last = NoCall
    /\ \E id \in 1..(factSeq + 1), updates \in FactUpdates,
          write \in WriteResults :
          CoreCall("updateFact", id, write, updateFact(facts, id, updates))
    /\ UNCHANGED <<knowledge, seq, dbExists, embeddings, initialized, dir,
                   streak, w, fts, svc, factSeq, episodes, session, callers,
                   startup>>

\* coreContext.deactivateFact(id): updateFact(id, {active: false})
DeactivateFact ==
    /\ last = NoCall
    /\ \E id \in 1..(factSeq + 1), write \in WriteResults :
          CoreCall("deactivateFact", id, write,
                   updateFact(facts, id, [field |-> "active", value |-> FALSE]))
    /\ UNCHANGED <<knowledge, seq, dbExists, embeddings, initialized, dir,
                   streak, w, fts, svc, factSeq, episodes, session, callers,
                   startup>>

\* coreContext.deleteFact(id)
DeleteFact ==
    /\ last = NoCall
    /\ \E id \in 1..(factSeq + 1), write \in WriteResults :
          CoreCall("deleteFact", id, write,
                   [ret |-> IF id \in DOMAIN facts THEN "true" ELSE "false",
                    rows |-> [k \in DOMAIN facts \ {id} |-> facts[k]]])
    /\ UNCHANGED <<knowledge, seq, dbExists, embeddings, initialized, dir,
                   streak, w, fts, svc, factSeq, episodes, session, callers,
                   startup>>

\* buildAugmentedPrompt(basePrompt) with the section always appended.
buildAugmentedPromptAlwaysAppends(basePrompt, rows) ==
    <<basePrompt, buildPromptSection(rows)>>

\* buildAugmentedPrompt(basePrompt): the parts of the prompt it returns, the
\* base prompt alone when the section is the empty string (no section).
buildAugmentedPrompt(basePrompt, rows) ==
    IF buildPromptSection(rows) = EmptySection THEN <<basePrompt>>
    ELSE <<basePrompt, buildPromptSection(rows)>>

BasePrompts == {"You are Claudian"}

\* coreContext.buildPromptSection(): a read.
BuildPromptSection ==
    /\ last = NoCall
    /\ last' = [op |-> "buildPromptSection",
                section |-> buildPromptSection(facts),
                content |-> DbContent]
    /\ UNCHANGED <<knowledge, seq, dbExists, embeddings, initialized, dir,
                   streak, w, fts, svc, aside>>

\* MemoryManager.buildAugmentedPrompt(basePrompt): init(), then the section.
BuildAugmentedPrompt(faults) ==
    /\ last = NoCall
    /\ \E basePrompt \in BasePrompts, f0 \in InitFaults(faults) :
       \E i0 \in {init(dir, DbContent, initialized, f0)} :
          /\ dbExists' = TRUE
          /\ initialized' = i0.ok
          /\ dir' = i0.dir
          /\ streak' = streakAfter(streak, i0.made)
          /\ svc' = svcAfterInit(svc, initialized, embeddings, f0)
          /\ last' = [op |-> "buildAugmentedPrompt", base |-> basePrompt,
                      threw |-> ~i0.ok,
                      prompt |-> IF i0.ok
                                 THEN buildAugmentedPrompt(basePrompt, facts)
                                 ELSE <<>>,
                      content |-> DbContent]
    /\ UNCHANGED <<knowledge, seq, embeddings, w, fts, aside>>

NextCore == AddFact \/ UpdateFact \/ DeactivateFact \/ DeleteFact \/ Return

SpecCore == InitCommon /\ [][NextCore]_vars

\* C18: whatever facts were added, updated, deactivated and deleted, what
\* getActiveFacts returns are the facts whose active flag is set, count() is
\* their number, every line of the prompt section (which is what
\* buildAugmentedPrompt appends) is the content of an active fact of the
\* section's category, and a fact that was just deactivated is not returned.
C18_OnlyActiveSurfaced ==
    /\ \A k \in 1..Len(getActiveFacts(facts)) :
          /\ getActiveFacts(facts)[k].active
          /\ facts[getActiveFacts(facts)[k].id].active
    /\ count(facts) = Len(getActiveFacts(facts))
    /\ \A s \in 1..Len(buildPromptSection(facts).sections) :
       \A l \in 1..Len(buildPromptSection(facts).sections[s].lines) :
          \E id \in DOMAIN facts :
             /\ facts[id].active
             /\ facts[id].content = buildPromptSection(facts).sections[s].lines[l]
             /\ facts[id].category = buildPromptSection(facts).sections[s].category
    /\ (last.op = "deactivateFact" /\ last.ret = "true")
          => \A k \in 1..Len(getActiveFacts(facts)) :
                getActiveFacts(facts)[k].id # last.id

\* Of two facts one was just deactivated: the prompt section holds the other
\* alone.
C18_Witness ==
    /\ last.op = "deactivateFact"
    /\ last.ret = "true"
    /\ Cardinality(DOMAIN facts) = 2
    /\ count(facts) = 1
    /\ Len(buildPromptSection(facts).sections) = 1
    /\ \A id \in DOMAIN facts :
          ~facts[id].active =>
              facts[id].content # buildPromptSection(facts).sections[1].lines[1]

(***************************************************************************)
(* Specification of the knowledge table and its index: inserts, queries    *)
(* (which update the access counts) and deletes.                           *)
(***************************************************************************)
NextIndex ==
    \/ StoreKnowledge({input \in StoreInputs : input.category = "preference"},
                      MaxRows, {"none"})
    \/ QueryKnowledge({"darkMode"}, {"none"})
    \/ DeleteKnowledgeById({"none"})
    \/ Return

SpecIndex == InitQuery /\ [][NextIndex]_vars

\* C19: between any two calls, the full-text index holds exactly the ids of
\* the rows of the knowledge table, each with the content and category of
\* its row; the handlers make no indexing call of their own.
C19_IndexMirrorsTable ==
    /\ DOMAIN fts = DOMAIN knowledge
    /\ \A id \in DOMAIN knowledge : fts[id] = indexed(knowledge[id])

\* A query has raised the access count of a row that was stored and another
\* row was deleted before: the index holds the one row.
C19_Witness ==
    /\ last.op = "queryKnowledge"
    /\ last.ret = "results"
    /\ Len(last.results) > 0
    /\ seq > Cardinality(DOMAIN knowledge)
    /\ DOMAIN fts = DOMAIN knowledge
    /\ \E id \in DOMAIN knowledge :
          knowledge[id].accessCount > 0 /\ fts[id] = indexed(knowledge[id])

\* C20 as stated: deleteKnowledgeById of an id that is not in the table and
\* restoreFromBackup of a name that is not in the directory return false and
\* leave the store and the backups directory as they were.
C20_NegativeResultChangesNothing ==
    /\ (/\ last.op = "deleteKnowledgeById"
        /\ last.write = "ok"
        /\ last.id \notin DOMAIN last.content.knowledge)
          => last.ret = "false" /\ DbContent = last.content /\ dir = last.before
    /\ (last.op = "restoreFromBackup" /\ last.i = 0)
          => last.ret = "false" /\ DbContent = last.content /\ dir = last.before

\* C20, amended: deleteKnowledgeById of an id that is not in the table, on a
\* manager that is initialized, and restoreFromBackup of a name that is not
\* in the directory return false and leave the store and the backups
\* directory as they were (no pre_restore snapshot is made).
C20_NegativeResultOnceInitialized ==
    /\ (/\ last.op = "deleteKnowledgeById"
        /\ last.write = "ok"
        /\ last.wasInitialized
        /\ last.id \notin DOMAIN last.content.knowledge)
          => last.ret = "false" /\ DbContent = last.content /\ dir = last.before
    /\ (last.op = "restoreFromBackup" /\ last.i = 0)
          => /\ last.ret = "false"
             /\ DbContent = last.content
             /\ dir = last.before
             /\ dbExists = last.existed

\* An id that is not there was deleted from a store that holds a snippet and
\* has a backup.
C20_Witness ==
    /\ last.op = "deleteKnowledgeById"
    /\ last.wasInitialized
    /\ last.ret = "false"
    /\ last.id \notin DOMAIN knowledge
    /\ Cardinality(DOMAIN knowledge) > 0
    /\ Len(dir) > 0

(***************************************************************************)
(* Specification of the backup system used on its own (getBackupSystem()):  *)
(* createBackup over a store file that may not exist, with every            *)
(* file-system fault, the loss of the store file and days passing.          *)
(***************************************************************************)
\* MemoryBackupSystem.createBackup(), called on the backup system itself.
BackupSystemCreateBackup(faults, maxFiles) ==
    /\ last = NoCall
    /\ Len(dir) < maxFiles
    /\ \E f \in FaultsAt(dir, faults) :
       \E r \in {createBackup(dir, DbContent, dbExists, f)} :
          /\ dir' = r.dir
          /\ streak' = streakAfter(streak, r.ret = "record")
          /\ last' = [op |-> "backupSystem.createBackup", ret |-> r.ret,
                      fault |-> f, before |-> dir, existed |-> dbExists]
    /\ UNCHANGED <<knowledge, seq, dbExists, embeddings, initialized, w, fts,
                   svc, aside>>

NextSnapshot ==
    \/ BackupSystemCreateBackup(Faults, MaxFiles)
    \/ LoseStore
    \/ TimePasses
    \/ Return

SpecSnapshot == InitBackup /\ [][NextSnapshot]_vars

NextPrompt ==
    \/ AddFact
    \/ DeactivateFact
    \/ BuildPromptSection
    \/ BuildAugmentedPrompt({"none"})
    \/ Return

SpecPrompt == InitCommon /\ [][NextPrompt]_vars

\* C22: with no active core fact, buildPromptSection returns the empty
\* section and buildAugmentedPrompt returns the base prompt alone, on every
\* call, and neither call changes the store.
C22_NoActiveFactNoSection ==
    /\ (last.op = "buildPromptSection" /\ count(last.content.facts) = 0)
          => last.section = EmptySection /\ DbContent = last.content
    /\ (/\ last.op = "buildAugmentedPrompt"
        /\ ~last.threw
        /\ count(last.content.facts) = 0)
          => last.prompt = <<last.base>> /\ DbContent = last.content

\* A prompt was asked for while the only core fact is a deactivated one.
C22_Witness ==
    /\ last.op = "buildAugmentedPrompt"
    /\ ~last.threw
    /\ Cardinality(DOMAIN facts) > 0
    /\ count(facts) = 0
    /\ last.prompt = <<last.base>>

\* The lines of the sections of a category that read a given content.
linesReading(section, category, content) ==
    {<<s, l>> \in (1..Len(section.sections)) \X (1..MaxRows) :
        /\ section.sections[s].category = category
        /\ l <= Len(section.sections[s].lines)
        /\ section.sections[s].lines[l] = content}

\* C37: every active core fact, whatever its category, appears exactly once
\* in the text buildPromptSection returns (as many lines read a content under
\* a category as there are active facts with them), so the text is never the
\* heading with no fact under it.
C37_EveryActiveFactInSection ==
    last.op = "buildPromptSection"
        => /\ \A id \in DOMAIN last.content.facts :
                last.content.facts[id].active
                    => Cardinality(linesReading(last.section,
                                                last.content.facts[id].category,
                                                last.content.facts[id].content))
                       = Cardinality({other \in DOMAIN last.content.facts :
                            /\ last.content.facts[other].active
                            /\ last.content.facts[other].category
                                   = last.content.facts[id].category
                            /\ last.content.facts[other].content
                                   = last.content.facts[id].content})
           /\ last.section.heading => Len(last.section.sections) > 0

(***************************************************************************)
(* Specification of the query analysis alone: analyzeQuery of a query       *)
(* string, then calculateOptimalLimit of the analysis and a requested       *)
(* limit.                                                                   *)
(***************************************************************************)
MaxLimit == 12

\* The limits query_memory passes on (it clamps to 1 and above); 0 stands for
\* a limit that is not given.
RequestedLimits == 0..MaxLimit

\* More query strings to analyze.
MoreQueryText ==
    [preferDark |->
        <<"p", "r", "e", "f", "e", "r", " ", "d", "a", "r", "k">>,
     iLikeX |->
        <<"i", " ", "l", "i", "k", "e", " ", "x">>,
     settingForTheApi |->
        <<"s", "e", "t", "t", "i", "n", "g", " ", "f", "o", "r", " ", "t", "h", "e", " ", "a", "p", "i">>,
     whereIsTheApi |->
        <<"w", "h", "e", "r", "e", " ", "i", "s", " ", "t", "h", "e", " ", "a", "p", "i">>,
     doIGo |->
        <<"d", "o", " ", "i", " ", "g", "o">>,
     in2024 |->
        <<"i", "n", " ", "2", "0", "2", "4">>,
     darkModeTrailing |->
        <<"d", "a", "r", "k", " ", "m", "o", "d", "e", " ">>,
     sevenWords |->
        <<"a", " ", "b", " ", "c", " ", "d", " ", "e", " ", "f", " ", "g">>,
     eightWords |->
        <<"a", " ", "b", " ", "c", " ", "d", " ", "e", " ", "f", " ", "g", " ", "h">>,
     elevenWords |->
        <<"a", " ", "b", " ", "c", " ", "d", " ", "e", " ", "f", " ", "g", " ", "h", " ", "i", " ", "j", " ", "k">>]

AnalyzedText == QueryText @@ MoreQueryText

\* The query string and the limit of a call.
InitAnalysis ==
    /\ knowledge = <<>>
    /\ seq = 0
    /\ dbExists = TRUE
    /\ embeddings = TRUE
    /\ initialized = FALSE
    /\ dir = <<>>
    /\ streak = NoStreak
    /\ last \in {[op |-> "analysis", pc |-> "called", q |-> q, limit |-> limit] :
                    q \in DOMAIN AnalyzedText, limit \in RequestedLimits}
    /\ w = WIdle
    /\ fts = indexOf(knowledge)
    /\ InitAside

\* const queryAnalysis = this.analyzeQuery(input.query)
AnalyzeQuery ==
    /\ last.op = "analysis"
    /\ last.pc = "called"
    /\ last' = [op |-> "analysis", pc |-> "analyzed", q |-> last.q,
                limit |-> last.limit,
                analysis |-> analyzeQuery(AnalyzedText[last.q])]
    /\ UNCHANGED <<knowledge, seq, dbExists, embeddings, initialized, dir,
                   streak, w, fts, svc, aside>>

\* const dynamicLimit = this.calculateOptimalLimit(queryAnalysis, input.limit)
CalculateOptimalLimit ==
    /\ last.op = "analysis"
    /\ last.pc = "analyzed"
    /\ last' = [op |-> "analysis", pc |-> "limited", q |-> last.q,
                limit |-> last.limit, analysis |-> last.analysis,
                dynamicLimit |->
                    calculateOptimalLimit(last.analysis, last.limit)]
    /\ UNCHANGED <<knowledge, seq, dbExists, embeddings, initialized, dir,
                   streak, w, fts, svc, aside>>

NextAnalysis == AnalyzeQuery \/ CalculateOptimalLimit

SpecAnalysis == InitAnalysis /\ [][NextAnalysis]_vars

\* C25: for a requested limit L (10 when none is given), the dynamic limit
\* (in tenths) is max(3, floor(L / 2)) when the query is specific and its
\* complexity is below 0.3, 1.2 L capped at 12 when the complexity is above
\* 0.7, and L in every other case.
C25_DynamicLimit ==
    (last.op = "analysis" /\ last.pc = "limited")
        => LET L == IF last.limit = 0 THEN 10 ELSE last.limit
               a == last.analysis
           IN  /\ (a.isSpecific /\ a.complexity < 3)
                     => /\ last.dynamicLimit >= 30
                        /\ last.dynamicLimit >= 10 * (L \div 2)
                        /\ last.dynamicLimit \in {30, 10 * (L \div 2)}
               /\ a.complexity > 7
                     => /\ last.dynamicLimit <= 120
                        /\ last.dynamicLimit <= 12 * L
                        /\ last.dynamicLimit \in {120, 12 * L}
               /\ (~(a.isSpecific /\ a.complexity < 3) /\ a.complexity <= 7)
                     => last.dynamicLimit = 10 * L

\* The three cases: a specific two-word query with limit 9 (halved to 4), a
\* query of eight words with limit 11 (capped at 12), and one of seven words
\* that keeps its limit.
C25_Witness ==
    /\ last.op = "analysis"
    /\ last.pc = "limited"
    /\ \/ /\ last.q = "in2024"
          /\ last.limit = 9
          /\ last.dynamicLimit = 40
       \/ /\ last.q = "eightWords"
          /\ last.limit = 11
          /\ last.dynamicLimit = 120
       \/ /\ last.q = "sevenWords"
          /\ last.limit = 7
          /\ last.dynamicLimit = 70

\* The white-space separated tokens of a query string, in lower case.
tokensOf(query) == nonEmpty(splitWhitespace(toLowerCase(query)))

\* C26: the minimum semantic similarity of an analysis is 0.7 when the query
\* has fewer than 3 tokens, otherwise 0.6 when one of its tokens is a
\* preference keyword, otherwise 0.5 when it is specific (a pattern of
\* specificPatterns, or a token of more than 8 characters), otherwise 0.4.
C26_MinSemanticScore ==
    (last.op = "analysis" /\ last.pc = "analyzed")
        => LET query == AnalyzedText[last.q]
               tokens == tokensOf(query)
           IN  last.analysis.minSemanticScore =
                  (IF Len(tokens) < 3 THEN 420
                   ELSE IF \E kw \in preferenceKeywords : kw \in Range(tokens)
                   THEN 360
                   ELSE IF \/ specificPatterns(query)
                           \/ \E i \in 1..Len(tokens) : Len(tokens[i]) > 8
                   THEN 300
                   ELSE 240)

\* C23: once "user prefers dark mode" is stored (category preference,
\* importance 0.8, not a core fact), the query "dark mode preference" is
\* analyzed as preference-oriented with minimum semantic similarity 0.6, and
\* queryKnowledge returns the snippet, as a keyword or a semantic match, with
\* a score above 0.6.
C23_DarkModePreferenceFound ==
    (/\ last.op = "queryKnowledge"
     /\ last.ret = "results"
     /\ last.q = "darkModePreference")
        => \A id \in DOMAIN last.rows :
              (/\ last.rows[id].content = "prefers"
               /\ last.rows[id].category = "preference"
               /\ last.rows[id].importance = 8)
                  => /\ Analysis[last.q].isPreference
                     /\ Analysis[last.q].minSemanticScore = 360
                     /\ \E i \in 1..Len(last.results) :
                           /\ last.results[i].id = id
                           /\ last.results[i].matchType \in {"keyword", "semantic"}
                           /\ last.results[i].score > 360

\* The candidates with their composite relevance score in place of the raw
\* score of the search that found them.
compositeScored(rows, results, analysis) ==
    [i \in 1..Len(results) |->
        [results[i] EXCEPT
            !.score = calculateRelevanceScore(rows, results[i], analysis)]]

\* C24: when the ranked candidates are more than the dynamic limit, the
\* results are the candidates whose composite relevance score is at least
\* the mean plus half the standard deviation of the composite scores, if
\* these are at most 1.5 times the dynamic limit, and otherwise the first
\* dynamic-limit candidates in the order of the composite score.
C24_AdaptiveLimitOnCompositeScore ==
    (/\ last.op = "queryKnowledge"
     /\ last.ret = "results"
     /\ 10 * Len(last.deduped) >
            calculateOptimalLimit(Analysis[last.q], last.limit))
        => LET dynamicLimit == calculateOptimalLimit(Analysis[last.q], last.limit)
               ranked == sortDescending(last.deduped,
                             LAMBDA r : calculateRelevanceScore(last.rows, r,
                                                                Analysis[last.q]))
               scored == compositeScored(last.rows, ranked, Analysis[last.q])
               high == {i \in 1..Len(ranked) :
                           atOrAboveQualityThreshold(scored, scored[i])}
           IN  IF 20 * Cardinality(high) <= 3 * dynamicLimit
               THEN /\ ids(last.results) = {ranked[i].id : i \in high}
                    /\ Len(last.results) = Cardinality(high)
               ELSE last.results = sliceTenths(ranked, dynamicLimit)

\* C27: every result of matchType semantic has a similarity above the
\* threshold of the corpus size (0.6 for more than 20 rows with a vector in
\* the category asked for, 0.5 for more than 10, else 0.45 for a query of at
\* most two tokens, else 0.4) and of at least the minimum semantic similarity
\* of the query's analysis.
C27_SemanticResultsPassBothGates ==
    (last.op = "queryKnowledge" /\ last.ret = "results")
        => LET scanned == Cardinality(semanticCandidates(last.rows, last.category))
               corpusThreshold ==
                   IF scanned > 20 THEN 360
                   ELSE IF scanned > 10 THEN 300
                   ELSE IF Len(ftsTerms[last.q]) <= 2 THEN 270
                   ELSE 240
           IN  \A i \in 1..Len(last.results) :
                  last.results[i].matchType = "semantic"
                      => /\ last.results[i].score > corpusThreshold
                         /\ last.results[i].score >=
                                Analysis[last.q].minSemanticScore

\* C28: no snippet id appears twice in the results of queryKnowledge, also
\* when a snippet is found by the keyword search and by the semantic search.
C28_NoIdTwice ==
    (last.op = "queryKnowledge" /\ last.ret = "results")
        => \A i, j \in 1..Len(last.results) :
              last.results[i].id = last.results[j].id => i = j

\* The semantic search ran and gave the highest similarity to a snippet that
\* the keyword search had found; the results hold it once, beside a semantic
\* match.
C28_Witness ==
    /\ last.op = "queryKnowledge"
    /\ last.ret = "results"
    /\ last.sim.ok
    /\ \E i, j \in 1..Len(last.results) :
          /\ last.results[i].matchType = "keyword"
          /\ last.results[i].id \in DOMAIN last.sim.of
          /\ last.sim.of[last.results[i].id] = 480
          /\ last.results[j].matchType = "semantic"
    /\ \A i, j \in 1..Len(last.results) :
          last.results[i].id = last.results[j].id => i = j

\* C29: after a createBackup or restoreFromBackup call (either one runs or
\* can run cleanupOldBackups), every .db file of the backups directory has
\* its .meta.json sidecar.  (A sidecar without its .db file is not a state of
\* the directory here: a file of the directory is a .db file with or without
\* sidecar.)
C29_SnapshotsHaveSidecars ==
    last.op \in {"createBackup", "restoreFromBackup"}
        => \A i \in 1..Len(dir) : dir[i].meta

(***************************************************************************)
(* Specification of queries over a store left by an earlier process, to    *)
(* which a reflection adds snippets, core facts and an episode.            *)
(***************************************************************************)
NextFrame ==
    \/ ReflectAndSummarize({"none"}, {"ok"})
    \/ QueryKnowledge({"darkMode"}, {"none"})
    \/ Return

SpecFrame == InitQuery /\ [][NextFrame]_vars

\* C30: a queryKnowledge call leaves every snippet in the table with its
\* content, category, importance and vector, leaves every field of the
\* snippets it does not return as it was (all of them when it throws), and
\* leaves the core facts and the episodes as they were (tags are not
\* modelled).
C30_QueryChangesAccessOnly ==
    [][(last = NoCall /\ last'.op = "queryKnowledge")
        => /\ DOMAIN knowledge' = DOMAIN knowledge
           /\ seq' = seq
           /\ \A id \in DOMAIN knowledge :
                 /\ knowledge'[id].content = knowledge[id].content
                 /\ knowledge'[id].category = knowledge[id].category
                 /\ knowledge'[id].importance = knowledge[id].importance
                 /\ knowledge'[id].embedding = knowledge[id].embedding
                 /\ (last'.ret = "results" /\ id \in ids(last'.results))
                       \/ knowledge'[id] = knowledge[id]
           /\ facts' = facts
           /\ factSeq' = factSeq
           /\ episodes' = episodes]_vars

\* A query over a store with a core fact and an episode returned one snippet,
\* whose access count it raised, and not another, which is as it was.
C30_Witness ==
    /\ last.op = "queryKnowledge"
    /\ last.ret = "results"
    /\ Cardinality(DOMAIN facts) > 0
    /\ Len(episodes) > 0
    /\ \E id \in ids(last.results) :
          /\ knowledge[id].accessCount = last.rows[id].accessCount + 1
          /\ knowledge[id].content = last.rows[id].content
    /\ \E id \in DOMAIN knowledge \ ids(last.results) :
          knowledge[id] = last.rows[id]

(***************************************************************************)
(* Specification of the final limiting alone: applyAdaptiveLimiting of the  *)
(* candidates that queryKnowledge hands to it.                              *)
(***************************************************************************)
MaxCandidates == 6

\* The dynamic limits of a requested limit of 1: 1 and, for a specific short
\* query, 3 (in tenths).
TargetLimits == {10, 30}

\* The keyword candidates of a specific query: at most 2 x dynamicLimit rows
\* (the LIMIT of searchFTS) with a bm25 magnitude that passes the quality
\* filter.
CandidateLists ==
    UNION {[1..n -> {s \in BM25Values : s >= 300}] : n \in 1..MaxCandidates}

LimitingCalls ==
    UNION {{[op |-> "limiting", pc |-> "called", targetLimit |-> t,
             candidates |->
                 [i \in 1..Len(scores) |->
                     [id |-> i, score |-> scores[i],
                      matchType |-> "keyword", accessCount |-> 0]]] :
               scores \in {s \in CandidateLists : 10 * Len(s) <= 2 * t}} :
           t \in TargetLimits}

InitLimiting ==
    /\ knowledge = <<>>
    /\ seq = 0
    /\ dbExists = TRUE
    /\ embeddings = TRUE
    /\ initialized = FALSE
    /\ dir = <<>>
    /\ streak = NoStreak
    /\ last \in LimitingCalls
    /\ w = WIdle
    /\ fts = indexOf(knowledge)
    /\ InitAside

\* const finalResults = this.applyAdaptiveLimiting(dedupedResults, dynamicLimit, ...)
ApplyAdaptiveLimiting ==
    /\ last.op = "limiting"
    /\ last.pc = "called"
    /\ last' = [op |-> "limiting", pc |-> "limited",
                targetLimit |-> last.targetLimit,
                candidates |-> last.candidates,
                results |-> applyAdaptiveLimiting(last.candidates,
                                                  last.targetLimit)]
    /\ UNCHANGED <<knowledge, seq, dbExists, embeddings, initialized, dir,
                   streak, w, fts, svc, aside>>

SpecLimiting == InitLimiting /\ [][ApplyAdaptiveLimiting]_vars

\* C32: when the candidates that reach the final limiting are not none, the
\* results are not none.
C32_LimitingKeepsSomething ==
    (last.op = "limiting" /\ last.pc = "limited" /\ Len(last.candidates) > 0)
        => Len(last.results) > 0

\* C33: for every requested limit from 1 on and every query, the dynamic
\* limit and the 2 x dynamic limit that searchFTS is called with are positive
\* whole numbers (limits count tenths).
C33_WholeLimits ==
    (last.op = "analysis" /\ last.pc = "limited" /\ last.limit >= 1)
        => /\ last.dynamicLimit > 0
           /\ last.dynamicLimit % 10 = 0
           /\ (2 * last.dynamicLimit) % 10 = 0

(***************************************************************************)
(* Specification of the number of files in the backups directory: backups, *)
(* scheduled checks and restores on one day, with no file-system fault.    *)
(***************************************************************************)
NextRetention ==
    \/ CreateBackup({"none"}, MAX_BACKUP_FILES + 2, MAX_BACKUP_FILES + 1)
    \/ CheckAndBackup({"none"}, MAX_BACKUP_FILES + 1)
    \/ RestoreFromBackup({"none"}, {"none"}, MAX_BACKUP_FILES + 1)
    \/ Return

SpecRetention == InitBackup /\ [][NextRetention]_vars

\* C39: after any completed sequence of createBackup, checkAndBackup and
\* restoreFromBackup calls the backups directory holds at most
\* MAX_BACKUP_FILES snapshot files, the pre_restore_* ones included.
C39_AtMostTenFiles ==
    last = NoCall => Len(listBackups(dir, "none")) <= MAX_BACKUP_FILES

(***************************************************************************)
(* Specification of a reflection that overlaps newSession(): the call      *)
(* gives up control at its await of the text-generation collaborator, and  *)
(* newSession(), which is synchronous, can run before the response comes.  *)
(***************************************************************************)
\* reflectAndSummarize(messages) up to `await this.client.messages.create`:
\* init() and the test of the number of messages.  started: the session
\* identifier at the time of the call.
BeginReflection ==
    /\ last = NoCall
    /\ seq < MaxRows
    /\ factSeq < MaxRows
    /\ Len(episodes) < MaxEpisodes
    /\ \E messageCount \in 1..2 :
       \E i0 \in {init(dir, DbContent, initialized, "none")} :
          /\ dbExists' = TRUE
          /\ initialized' = i0.ok
          /\ svc' = svcAfterInit(svc, initialized, embeddings, "none")
          /\ dir' = i0.dir
          /\ streak' = streakAfter(streak, i0.made)
          /\ last' = [op |-> "reflectAndSummarize",
                      pc |-> IF tooFewMessages(messageCount) THEN "done"
                             ELSE "awaiting",
                      messages |-> messageCount, started |-> session,
                      stamped |-> session, before |-> DbContent,
                      ret |-> "null", log |-> <<>>]
    /\ UNCHANGED <<knowledge, seq, embeddings, w, fts, aside>>

\* newSession() while the reflection awaits the collaborator.
NewSessionWhileAwaiting ==
    /\ last.op = "reflectAndSummarize"
    /\ last.pc = "awaiting"
    /\ \E sid \in SessionIds : session' = sid
    /\ UNCHANGED <<store, svc, facts, factSeq, episodes, callers, startup>>

\* The response arrives and the call runs on: the parse, saveEpisode and the
\* writes of the facts, each of which reads this.currentSessionId when it
\* runs (stamped).
CompleteReflection ==
    /\ last.op = "reflectAndSummarize"
    /\ last.pc = "awaiting"
    /\ \E response \in Responses,
          embedOk \in (IF embeddings THEN BOOLEAN ELSE {FALSE}) :
       \E r \in {reflectWith(Tables(<<>>), last.messages,
                             parseReflectionResponse(response), session,
                             [k \in 1..(MaxFacts + 1) |-> "ok"], embedOk)} :
          /\ knowledge' = r.st.knowledge
          /\ seq' = r.st.seq
          /\ fts' = r.st.fts
          /\ facts' = r.st.facts
          /\ factSeq' = r.st.factSeq
          /\ episodes' = r.st.episodes
          /\ dir' = r.st.dir
          /\ streak' = r.st.streak
          /\ last' = [last EXCEPT !.pc = "done", !.ret = r.ret,
                                  !.log = r.st.log, !.stamped = session]
    /\ UNCHANGED <<dbExists, embeddings, initialized, w, svc, session, callers,
                   startup>>

\* The call returns to its caller.
ReflectionReturns ==
    /\ last.op = "reflectAndSummarize"
    /\ last.pc = "done"
    /\ last' = NoCall
    /\ UNCHANGED <<knowledge, seq, dbExists, embeddings, initialized, dir,
                   streak, w, fts, svc, aside>>

NextSession ==
    \/ BeginReflection
    \/ NewSessionWhileAwaiting
    \/ CompleteReflection
    \/ NewSession
    \/ ReflectionReturns

SpecSession == InitCommon /\ [][NextSession]_vars

\* C36: the Episode and the reflection-sourced Knowledge Snippets a
\* reflectAndSummarize call persists carry the session identifier that was
\* current when the call started, also when newSession ran while the call
\* awaited the collaborator.
C36_ReflectionKeepsItsSession ==
    (last.op = "reflectAndSummarize" /\ last.pc = "done" /\ Len(last.log) > 0)
        => /\ last.stamped = last.started
           /\ \A k \in 1..Len(last.log) :
                 last.log[k].table = "episodes"
                     => episodes[last.log[k].id].session = last.started

(***************************************************************************)
(* Specification of autoBackup calls in flight together: the call made by  *)
(* init() at startup and the calls storeKnowledge fires without awaiting   *)
(* them.  A call runs without interruption up to its first await.          *)
(***************************************************************************)
\* autoBackup() with checkAndBackup giving up control between its listing and
\* createBackup(): [pc, dir, made].
autoBackupYieldsAfterCheck(d, content, exists) ==
    IF hasRecentBackup(d, "none")
    THEN [pc |-> "skipped", dir |-> d, made |-> FALSE]
    ELSE [pc |-> "checked", dir |-> d, made |-> FALSE]

\* autoBackup() up to its first await.  checkAndBackup lists the backups and
\* returns false for a recent one (the call then waits at `await
\* checkAndBackup()`); otherwise it calls createBackup(), whose copy, sidecar
\* and cleanup are synchronous, so that the call first waits at `await
\* this.cleanupOldBackups()`, the snapshot already made.
autoBackupToFirstAwait(d, content, exists) ==
    [pc |-> IF autoBackup(d, content, exists, "none").made THEN "creating"
            ELSE "skipped",
     dir |-> autoBackup(d, content, exists, "none").dir,
     made |-> autoBackup(d, content, exists, "none").made]

\* What a suspended call does when it runs on: a call that had passed the test
\* of the listing calls createBackup(); a call past createBackup() or past the
\* skip returns.
autoBackupResumed(pc, d, content, exists) ==
    IF pc = "checked"
    THEN [pc |-> "creating",
          dir |-> createBackup(d, content, exists, "none").dir,
          made |-> createBackup(d, content, exists, "none").ret = "record"]
    ELSE [pc |-> "idle", dir |-> d, made |-> FALSE]

\* autoBackup(memoryDir) is called, by init() or by storeKnowledge.
AutoBackupFired(c) ==
    /\ last = NoCall
    /\ callers[c].pc = "idle"
    /\ \E r \in {autoBackupToFirstAwait(dir, DbContent, dbExists)} :
          /\ dir' = r.dir
          /\ streak' = streakAfter(streak, r.made)
          /\ callers' = [callers EXCEPT ![c].pc = r.pc]
    /\ UNCHANGED <<knowledge, seq, dbExists, embeddings, initialized, last, w,
                   fts, svc, facts, factSeq, episodes, session, startup>>

\* A call in flight runs on from its await.
AutoBackupResumes(c) ==
    /\ callers[c].pc # "idle"
    /\ \E r \in {autoBackupResumed(callers[c].pc, dir, DbContent, dbExists)} :
          /\ dir' = r.dir
          /\ streak' = streakAfter(streak, r.made)
          /\ callers' = [callers EXCEPT ![c].pc = r.pc]
    /\ UNCHANGED <<knowledge, seq, dbExists, embeddings, initialized, last, w,
                   fts, svc, facts, factSeq, episodes, session, startup>>

NextOverlap ==
    \/ \E c \in Callers : AutoBackupFired(c)
    \/ \E c \in Callers : AutoBackupResumes(c)
    \/ TimePasses

SpecOverlap == InitCommon /\ [][NextOverlap]_vars

\* C31: however the autoBackup calls in flight interleave, no two snapshots
\* made through checkAndBackup are less than 24 hours apart: at most one
\* snapshot was made today, and the snapshots within the retention period
\* were made on different days.
C31_SnapshotsADayApart ==
    /\ Cardinality({i \in 1..Len(dir) : dir[i].age = 0}) <= 1
    /\ \A i, j \in 1..Len(dir) :
          (i # j /\ dir[i].age <= BACKUP_RETENTION_DAYS)
              => dir[i].age # dir[j].age

\* Three calls are in flight the day the first snapshot is made: one made it,
\* the two others found it and skipped.
C31_Witness ==
    /\ Len(dir) = 1
    /\ dir[1].age = 0
    /\ Cardinality({c \in Callers : callers[c].pc = "creating"}) = 1
    /\ Cardinality({c \in Callers : callers[c].pc = "skipped"}) = MaxCallers - 1

(***************************************************************************)
(* Specification of the startup: memory operations that the kernel runs in *)
(* parallel (executeToolCalls maps the tool calls to promises and awaits   *)
(* them together) each call MemoryManager.init(), which gives up control   *)
(* at its awaits.                                                          *)
(***************************************************************************)
\* MemoryManager.init() to its first await: nothing once initialized;
\* otherwise db.init(), which returns at once for an initialized database
\* and otherwise opens the store file (openWithRetry calls new Database
\* before its first await) and waits.  [pc, startup]
initUntilOpen(isInitialized, s) ==
    IF isInitialized THEN [pc |-> "ready", startup |-> s]
    ELSE IF s.dbInitialized THEN [pc |-> "opened", startup |-> s]
    ELSE [pc |-> "opened", startup |-> [s EXCEPT !.opens = @ + 1]]

\* A memory operation calls MemoryManager.init().
MemoryInit(c) ==
    /\ callers[c].pc = "idle"
    /\ \E r \in {initUntilOpen(initialized, startup)} :
          /\ startup' = r.startup
          /\ callers' = [callers EXCEPT ![c].pc = r.pc]
    /\ UNCHANGED <<store, svc, facts, factSeq, episodes, session>>

\* db.init() runs on after its await (the pragmas, the schema, initialized =
\* true), coreContext.init() finds the database initialized, and
\* embeddingService.init() is entered.
DbInitResumes(c) ==
    /\ callers[c].pc = "opened"
    /\ \E r \in {enterInit(svc)} :
          /\ svc' = r.svc
          /\ callers' = [callers EXCEPT ![c] = [pc |-> r.pc, joined |-> r.joined]]
    /\ startup' = [startup EXCEPT !.dbInitialized = TRUE]
    /\ UNCHANGED <<store, facts, factSeq, episodes, session>>

\* backupSystem.init() and `await autoBackup(memoryDir)`: the check (and the
\* snapshot, when no backup is recent) is made before the call waits.
StartupAutoBackup(c) ==
    /\ callers[c].pc = "proceeded"
    /\ \E r \in {autoBackup(dir, DbContent, TRUE, "none")} :
          /\ dir' = r.dir
          /\ streak' = streakAfter(streak, r.made)
    /\ startup' = [startup EXCEPT !.checks = @ + 1]
    /\ callers' = [callers EXCEPT ![c].pc = "backedUp"]
    /\ UNCHANGED <<knowledge, seq, dbExists, embeddings, initialized, last, w,
                   fts, svc, facts, factSeq, episodes, session>>

\* this.initialized = true, and init() returns to the operation.
InitCompletes(c) ==
    /\ callers[c].pc = "backedUp"
    /\ initialized' = TRUE
    /\ callers' = [callers EXCEPT ![c].pc = "ready"]
    /\ UNCHANGED <<knowledge, seq, dbExists, embeddings, dir, streak, last, w,
                   fts, svc, facts, factSeq, episodes, session, startup>>

NextStartup ==
    \/ \E c \in Callers : MemoryInit(c)
    \/ \E c \in Callers : DbInitResumes(c)
    \/ LoadSettles
    \/ \E c \in Callers : Resume(c)
    \/ \E c \in Callers : StartupAutoBackup(c)
    \/ \E c \in Callers : InitCompletes(c)

SpecStartup == InitCommon /\ [][NextStartup]_vars

\* C35: when several memory operations call MemoryManager.init() before the
\* first initialization has completed, the store file is opened exactly once
\* and the startup auto-backup check runs exactly once.
C35_OneOpenOneCheck ==
    /\ startup.opens <= 1
    /\ startup.checks <= 1
    /\ initialized => startup.opens = 1 /\ startup.checks = 1

(***************************************************************************)
(* Specification of the Telegram bridge while the kernel processes one     *)
(* message: the tool calls of the message raise permission requests, users *)
(* send /approve and /deny, and the timers of the CONFIRM requests fire.   *)
(***************************************************************************)
MaxRequests == 2

Requests == 1..MaxRequests

PermissionLevels == {"allow", "confirm", "require", "deny"}

Users == {"allowed", "stranger"}

\* ctx.session.pendingApproval when it is undefined.
NoRequest == [skillName |-> "undefined"]

\* The bridge at the start of kernel.chat(text): no request was raised,
\* pendingRequests is empty and pendingApproval is undefined.  told is
\* history: the first command an allowed user sent while the request was
\* pending.
ChatStarted ==
    [op |-> "chat",
     requests |-> [r \in Requests |->
                      [level |-> "none", state |-> "none", reason |-> "none",
                       told |-> "none"]],
     pendingRequests |-> {},
     pendingApproval |-> NoRequest,
     reply |-> "none"]

\* handlePermissionRequest(request) for the request r: ALLOW and DENY are
\* answered at once; CONFIRM and REQUIRE return a promise whose resolve is
\* kept in pendingRequests (and, for CONFIRM, in a timer).
handlePermissionRequest(bridge, r, level) ==
    IF level = "allow"
    THEN [bridge EXCEPT !.requests[r].level = level,
                        !.requests[r].state = "approved"]
    ELSE IF level = "deny"
    THEN [bridge EXCEPT !.requests[r].level = level,
                        !.requests[r].state = "denied",
                        !.requests[r].reason = "Action is not permitted"]
    ELSE [bridge EXCEPT !.requests[r].level = level,
                        !.requests[r].state = "pending",
                        !.pendingRequests = @ \cup {r}]

\* bot.command("approve") / bot.command("deny") behind the auth middleware: a
\* user who is not allowed is turned away; otherwise the request in
\* ctx.session.pendingApproval is resolved, and with none there the reply is
\* "No pending action".
command(bridge, user, cmd) ==
    IF user # "allowed" THEN [bridge EXCEPT !.reply = "Unauthorized"]
    ELSE IF bridge.pendingApproval = NoRequest
    THEN [bridge EXCEPT !.reply = "No pending action"]
    ELSE [bridge EXCEPT
             !.requests[bridge.pendingApproval.request].state =
                 IF cmd = "approve" THEN "approved" ELSE "denied",
             !.requests[bridge.pendingApproval.request].reason = "User command",
             !.pendingApproval = NoRequest,
             !.reply = "Action " \o cmd]

\* permissionGate.checkPermission(skill, params) for the tool call r: ALLOW
\* and DENY are answered by the gate, CONFIRM and REQUIRE are handed to the
\* onRequest handler, which is the bridge's handlePermissionRequest.
checkPermission(bridge, r, level) ==
    IF level = "allow"
    THEN [bridge EXCEPT !.requests[r].level = level,
                        !.requests[r].state = "approved"]
    ELSE IF level = "deny"
    THEN [bridge EXCEPT !.requests[r].level = level,
                        !.requests[r].state = "denied",
                        !.requests[r].reason = "denied by permission policy"]
    ELSE handlePermissionRequest(bridge, r, level)

\* The requests that learn of a command: the pending ones that no allowed
\* user has answered yet.
toldBy(bridge, user, cmd) ==
    [r \in Requests |->
        IF /\ user = "allowed"
           /\ bridge.requests[r].state = "pending"
           /\ bridge.requests[r].told = "none"
        THEN cmd ELSE bridge.requests[r].told]

\* A text message arrives and the handler calls kernel.chat(text).
Chat ==
    /\ last = NoCall
    /\ last' = ChatStarted
    /\ UNCHANGED <<knowledge, seq, dbExists, embeddings, initialized, dir,
                   streak, w, fts, svc, aside>>

\* A tool call of the message reaches permissionGate.checkPermission, which
\* hands the request to the bridge.
PermissionRequested(r) ==
    /\ last.op = "chat"
    /\ last.requests[r].state = "none"
    /\ \E level \in PermissionLevels :
          last' = checkPermission(last, r, level)
    /\ UNCHANGED <<knowledge, seq, dbExists, embeddings, initialized, dir,
                   streak, w, fts, svc, aside>>

\* A user sends /approve or /deny and the bot handles it.
Command ==
    /\ last.op = "chat"
    /\ \E user \in Users, cmd \in {"approve", "deny"} :
       \E told \in {toldBy(last, user, cmd)} :
          last' = [command(last, user, cmd) EXCEPT
                      !.requests = [r \in Requests |->
                                       [@[r] EXCEPT !.told = told[r]]]]
    /\ UNCHANGED <<knowledge, seq, dbExists, embeddings, initialized, dir,
                   streak, w, fts, svc, aside>>

\* The timer of a CONFIRM request fires: the entry is deleted and the request
\* is resolved as approved.
Timeout(r) ==
    /\ last.op = "chat"
    /\ last.requests[r].level = "confirm"
    /\ last.requests[r].state = "pending"
    /\ last' = [last EXCEPT !.requests[r].state = "approved",
                            !.requests[r].reason = "Auto-approved after timeout",
                            !.pendingRequests = @ \ {r}]
    /\ UNCHANGED <<knowledge, seq, dbExists, embeddings, initialized, dir,
                   streak, w, fts, svc, aside>>

\* Every tool call has its answer: Promise.all settles and chat returns.
ChatReturns ==
    /\ last.op = "chat"
    /\ \A r \in Requests : last.requests[r].state \in {"approved", "denied"}
    /\ last' = NoCall
    /\ UNCHANGED <<knowledge, seq, dbExists, embeddings, initialized, dir,
                   streak, w, fts, svc, aside>>

NextBridge ==
    \/ Chat
    \/ \E r \in Requests : PermissionRequested(r)
    \/ Command
    \/ \E r \in Requests : Timeout(r)
    \/ ChatReturns

SpecBridge == InitCommon /\ [][NextBridge]_vars

\* The steps the process takes by itself are taken: the tool calls of a
\* message are started, a timer that was set fires, and a chat whose tool
\* calls are answered returns.  What users send is up to them.
SpecBridgeFair ==
    /\ SpecBridge
    /\ \A r \in Requests : WF_vars(PermissionRequested(r))
    /\ \A r \in Requests : WF_vars(Timeout(r))
    /\ WF_vars(ChatReturns)

\* C40: a permission request raised for a CONFIRM or REQUIRE level skill is
\* resolved once an allowed user has sent /approve or /deny: as approved by
\* the user after /approve, as denied after /deny, so that the chat call of
\* the kernel does not wait forever.
C40_CommandResolvesRequest ==
    \A r \in Requests :
        /\ (last.op = "chat" /\ last.requests[r].told = "approve")
              ~> (last.op = "chat" /\ last.requests[r].state = "approved")
        /\ (last.op = "chat" /\ last.requests[r].told = "deny")
              ~> (last.op = "chat" /\ last.requests[r].state = "denied")

====
